---- MODULE Spec2Model ----
(***************************************************************************)
(* Model of agent-mail-core: the file-reservation lease engine             *)
(* (ReservationOperations), the contact/link admission engine              *)
(* (LinkOperations) and the AgentMailCore facade that wraps reservation    *)
(* mutations in the named lock "reservations".                             *)
(*                                                                         *)
(* Strings that the code inspects character by character (glob patterns,   *)
(* paths) are sequences of one-character strings.  Timestamps are ISO      *)
(* strings in the code, compared lexicographically; they are modelled by   *)
(* the integer instant they denote.                                        *)
(***************************************************************************)
EXTENDS Integers, Sequences, FiniteSets, TLC

\* ------------------------------------------------------------------ bounds
MaxClock == 1
MaxRows == 2
MaxLinkId == 2

\* SQL NULL (released_ts of a live reservation); no timestamp equals it.
NULL == 0 - 1

\* ------------------------------------------------------- string primitives
\* String.prototype.includes
Includes(s, sub) ==
  \E i \in 1..(Len(s) - Len(sub) + 1) : SubSeq(s, i, i + Len(sub) - 1) = sub

\* String.prototype.startsWith
StartsWith(s, prefix) ==
  Len(prefix) <= Len(s) /\ SubSeq(s, 1, Len(prefix)) = prefix

\* String.prototype.lastIndexOf for a single character: a 0-based index, or -1.
LastIndexOf(s, c) ==
  LET hits == {i \in 1..Len(s) : s[i] = c}
  IN  IF hits = {} THEN 0 - 1
      ELSE (CHOOSE i \in hits : \A k \in hits : k <= i) - 1

\* String.prototype.split on a single character: the sequence of parts.
RECURSIVE Split(_, _)
Split(s, c) ==
  LET hits == {i \in 1..Len(s) : s[i] = c}
  IN  IF hits = {} THEN <<s>>
      ELSE LET i == CHOOSE k \in hits : \A m \in hits : k <= m
           IN  <<SubSeq(s, 1, i - 1)>> \o Split(SubSeq(s, i + 1, Len(s)), c)

\* Array.prototype.join with a single-character separator.
RECURSIVE Join(_, _)
Join(parts, c) ==
  IF parts = <<>> THEN <<>>
  ELSE IF Len(parts) = 1 THEN parts[1]
  ELSE parts[1] \o <<c>> \o Join(Tail(parts), c)

\* ------------------------------------------------- SimpleGlobAdapter.matches
\* Index of the first "]" at or after position j of pattern p, or Len(p)+1.
ClassEnd(p, j) ==
  LET hits == {k \in j..Len(p) : p[k] = "]"}
  IN  IF hits = {} THEN Len(p) + 1
      ELSE CHOOSE k \in hits : \A m \in hits : k <= m

\* patternToRegex and RegExp.test fused: does the regular expression built
\* from p[i..] match exactly s[j..] ?
RECURSIVE MatchFrom(_, _, _, _)
MatchFrom(p, i, s, j) ==
  IF i > Len(p) THEN j > Len(s)
  ELSE IF p[i] = "*" THEN
    IF i + 1 <= Len(p) /\ p[i + 1] = "*" THEN
      IF i + 2 <= Len(p) /\ p[i + 2] = "/" THEN
        \* "**/"  becomes  (?:.*\/)?
        \/ MatchFrom(p, i + 3, s, j)
        \/ \E k \in j..Len(s) : s[k] = "/" /\ MatchFrom(p, i + 3, s, k + 1)
      ELSE
        \* "**"  becomes  .*
        \E k \in j..(Len(s) + 1) : MatchFrom(p, i + 2, s, k)
    ELSE
      \* "*"  becomes  [^\/]*
      \E k \in j..(Len(s) + 1) :
        /\ \A m \in j..(k - 1) : s[m] # "/"
        /\ MatchFrom(p, i + 1, s, k)
  ELSE IF p[i] = "?" THEN
    j <= Len(s) /\ s[j] # "/" /\ MatchFrom(p, i + 1, s, j + 1)
  ELSE IF p[i] = "[" THEN
    LET negated == i + 1 <= Len(p) /\ p[i + 1] \in {"!", "^"}
        first   == IF negated THEN i + 2 ELSE i + 1
        close   == ClassEnd(p, first)
        content == {p[k] : k \in first..(close - 1)}
    IN  /\ j <= Len(s)
        /\ (s[j] \in content) # negated
        /\ MatchFrom(p, close + 1, s, j + 1)
  ELSE
    j <= Len(s) /\ s[j] = p[i] /\ MatchFrom(p, i + 1, s, j + 1)

\* GlobAdapter.matches(pattern, path)
GlobMatches(pattern, path) == MatchFrom(pattern, 1, path, 1)

\* ------------------------------------- ReservationOperations: the heuristic
IsWildPart(part) == Includes(part, <<"*">>) \/ Includes(part, <<"?">>) \/ Includes(part, <<"[">>)

RECURSIVE StaticParts(_)
StaticParts(parts) ==
  IF parts = <<>> \/ IsWildPart(Head(parts)) THEN <<>>
  ELSE <<Head(parts)>> \o StaticParts(Tail(parts))

getBasePath(pattern) == Join(StaticParts(Split(pattern, "/")), "/")

getDirectory(pattern) ==
  LET lastSlash == LastIndexOf(pattern, "/")
  IN  IF lastSlash > 0 THEN SubSeq(pattern, 1, lastSlash) ELSE <<>>

getFileName(pattern) ==
  LET lastSlash == LastIndexOf(pattern, "/")
  IN  IF lastSlash >= 0 THEN SubSeq(pattern, lastSlash + 2, Len(pattern)) ELSE pattern

patternsOverlap(pattern1, pattern2) ==
  \/ /\ Includes(pattern1, <<"*", "*">>) \/ Includes(pattern2, <<"*", "*">>)
     /\ \/ StartsWith(getBasePath(pattern1), getBasePath(pattern2))
        \/ StartsWith(getBasePath(pattern2), getBasePath(pattern1))
  \/ GlobMatches(pattern1, pattern2)
  \/ GlobMatches(pattern2, pattern1)
  \/ /\ getDirectory(pattern1) = getDirectory(pattern2)
     /\ \/ Includes(getFileName(pattern1), <<"*">>)
        \/ Includes(getFileName(pattern2), <<"*">>)
        \/ getFileName(pattern1) = getFileName(pattern2)

\* ------------------------------------------------------------------ inputs
\* "a/**", "a/b", "c/d": the first two overlap, the third overlaps neither
PatRecursive == <<"a", "/", "*", "*">>
PatFileAB    == <<"a", "/", "b">>
PatFileCD    == <<"c", "/", "d">>
Patterns == {PatRecursive, PatFileAB, PatFileCD}
\* concrete candidate paths for isFileReserved
Paths == {PatFileAB, PatFileCD, <<"a", "/", "x", "/", "y">>, <<"e">>}
\* pattern batches of one reserveFiles call
Batches == {<<p>> : p \in Patterns} \cup {<<PatFileAB, PatFileCD>>}
\* ttlSeconds, in clock ticks
TtlChoices == {0, 1}

\* "*/b", "a/*", "a/?": single-level wildcards in the directory or in the file
PatAnyDirB  == <<"*", "/", "b">>
PatAnyFileA == <<"a", "/", "*">>
PatOneCharA == <<"a", "/", "?">>
OverlapPatterns == {PatAnyDirB, PatAnyFileA, PatOneCharA, PatFileAB}

\* patternsOverlap tabulated over the pattern pools (evaluated once)
OverlapTable ==
  [p \in Patterns \cup OverlapPatterns \cup Paths,
   q \in Patterns \cup OverlapPatterns \cup Paths |-> patternsOverlap(p, q)]

\* agents table rows: agents 1 and 2 share project 1, agent 3 is in project 2
AgentIds == {1, 2, 3}
\* an id no agents row has
NoAgent == Cardinality(AgentIds) + 1
ProjectIds == {1, 2}
ProjectOf(a) == IF a = 3 THEN 2 ELSE 1
ProgramOf(a) == IF a = 3 THEN "p2" ELSE "p1"
ContactPolicies == {"open", "auto", "contacts_only", "block_all"}

\* ------------------------------------------------------------------- state
VARIABLES
  clock,              \* the wall clock read by now() and Date.now()
  agents,             \* table agents: id -> row
  file_reservations,  \* table file_reservations: sequence of rows, row i has id i
  ret,                \* the error the last completed call threw, "none" if it returned
  unswept,            \* file_reservations of the same run with its sweeps left out
  lock,               \* holder of the lock named "reservations", or NoProc
  proc,               \* per caller: the AgentMailCore call in flight and its locals
  agent_links,        \* table agent_links: set of rows
  nextLinkId,         \* AUTOINCREMENT counter of agent_links
  linkProc,           \* per caller: the LinkOperations call in flight and its locals
  messages,           \* table messages: sequence of rows, row i has id i
  message_recipients, \* table message_recipients: sequence of rows, row i has id i
  msgLock,            \* holder of the lock named "messages", or NoProc
  sendProc            \* per caller: the AgentMailCore send in flight and its locals

vars == <<clock, agents, file_reservations, ret, unswept, lock, proc,
          agent_links, nextLinkId, linkProc,
          messages, message_recipients, msgLock, sendProc>>

\* db.get("SELECT ... FROM agents WHERE id = ?")
AgentExists(id) == id \in DOMAIN agents

\* ----------------------------------------------- models/file-reservation.ts
fileReservationFromRow(row) ==
  [id |-> row.id, projectId |-> row.project_id, agentId |-> row.agent_id,
   pathPattern |-> row.path_pattern, exclusive |-> (row.exclusive = 1),
   expiresTs |-> row.expires_ts, releasedTs |-> row.released_ts]

\* rows.map(fileReservationFromRow)
RowsToModels(rows) == [i \in 1..Len(rows) |-> fileReservationFromRow(rows[i])]

\* ------------------------------------------ ReservationOperations (queries)
\* every function takes the table it reads and the instant `t` that now() returns

\* mutant: the in-memory expiry filter is missing
getActiveReservationsNoExpiry(table, t, projectId) ==
  RowsToModels(SelectSeq(table, LAMBDA r : r.project_id = projectId /\ r.released_ts = NULL))

\* mutant: a released row stays active until it expires
getActiveReservationsUntilExpiry(table, t, projectId) ==
  SelectSeq(RowsToModels(SelectSeq(table, LAMBDA r : r.project_id = projectId)),
            LAMBDA r : r.expiresTs > t)

getActiveReservations(table, t, projectId) ==
  LET rows == SelectSeq(table, LAMBDA r : r.project_id = projectId /\ r.released_ts = NULL)
  IN  SelectSeq(RowsToModels(rows), LAMBDA r : r.expiresTs > t)

getActiveReservationsForAgent(table, t, agentId) ==
  LET rows == SelectSeq(table, LAMBDA r : r.agent_id = agentId /\ r.released_ts = NULL)
  IN  SelectSeq(RowsToModels(rows), LAMBDA r : r.expiresTs > t)

\* mutant: advisory reservations of other agents are kept
OtherReservationsAnyMode(table, t, projectId, agentId) ==
  SelectSeq(getActiveReservations(table, t, projectId), LAMBDA r : r.agentId # agentId)

\* mutant: the agent's own exclusive reservations are kept
ExclusiveReservations(table, t, projectId, agentId) ==
  SelectSeq(getActiveReservations(table, t, projectId), LAMBDA r : r.exclusive)

\* the other agents' exclusive reservations among the active ones
OtherReservations(table, t, projectId, agentId) ==
  SelectSeq(getActiveReservations(table, t, projectId),
            LAMBDA r : r.agentId # agentId /\ r.exclusive)

RECURSIVE ConflictsOf(_, _)
ConflictsOf(patterns, others) ==
  IF patterns = <<>> THEN <<>>
  ELSE LET pattern == Head(patterns)
           hits == SelectSeq(others, LAMBDA e : OverlapTable[pattern, e.pathPattern])
       IN  [k \in 1..Len(hits) |-> [pattern |-> pattern, existingReservation |-> hits[k],
                                     agentId |-> hits[k].agentId]]
           \o ConflictsOf(Tail(patterns), others)

checkConflicts(table, t, projectId, agentId, patterns) ==
  LET conflicts == ConflictsOf(patterns, OtherReservations(table, t, projectId, agentId))
  IN  [hasConflicts |-> Len(conflicts) > 0, conflicts |-> conflicts]

\* mutant: advisory reservations of other agents count as well
isFileReservedAnyMode(table, t, projectId, agentId, filePath) ==
  LET others == OtherReservationsAnyMode(table, t, projectId, agentId)
      hits == SelectSeq(others, LAMBDA r : GlobMatches(r.pathPattern, filePath))
  IN  IF Len(hits) > 0 THEN [reserved |-> TRUE, reservedBy |-> Head(hits)]
      ELSE [reserved |-> FALSE]

isFileReserved(table, t, projectId, agentId, filePath) ==
  LET others == OtherReservations(table, t, projectId, agentId)
      hits == SelectSeq(others, LAMBDA r : GlobMatches(r.pathPattern, filePath))
  IN  IF Len(hits) > 0 THEN [reserved |-> TRUE, reservedBy |-> Head(hits)]
      ELSE [reserved |-> FALSE]

\* ---------------------------------------- ReservationOperations (mutations)
\* Each returns [table |-> the table afterwards, out |-> the result or error].

\* one INSERT INTO file_reservations; AUTOINCREMENT gives the next id
InsertReservation(table, projectId, agentId, pattern, exclusive, timestamp, expiresTs) ==
  Append(table, [id |-> Len(table) + 1, project_id |-> projectId, agent_id |-> agentId,
                 path_pattern |-> pattern, exclusive |-> IF exclusive THEN 1 ELSE 0,
                 expires_ts |-> expiresTs, released_ts |-> NULL])

RECURSIVE InsertAll(_, _, _, _, _, _, _)
InsertAll(table, projectId, agentId, patterns, exclusive, timestamp, expiresTs) ==
  IF patterns = <<>> THEN table
  ELSE InsertAll(InsertReservation(table, projectId, agentId, Head(patterns),
                                   exclusive, timestamp, expiresTs),
                 projectId, agentId, Tail(patterns), exclusive, timestamp, expiresTs)

\* mutant: on a conflict the patterns that do not conflict are still inserted
reserveFilesPartial(table, t, agentId, patterns, exclusive, ttlSeconds) ==
  IF ~AgentExists(agentId)
  THEN [table |-> table, out |-> [op |-> "reserveFiles", err |-> "not_found", n |-> 0]]
  ELSE LET projectId == agents[agentId].project_id
           others == OtherReservations(table, t, projectId, agentId)
           conflictCheck == checkConflicts(table, t, projectId, agentId, patterns)
           free == SelectSeq(patterns, LAMBDA p : Len(ConflictsOf(<<p>>, others)) = 0)
       IN  IF conflictCheck.hasConflicts /\ exclusive
           THEN [table |-> InsertAll(table, projectId, agentId, free, exclusive,
                                     t, t + ttlSeconds),
                 out |-> [op |-> "reserveFiles", err |-> "conflict",
                          n |-> Len(conflictCheck.conflicts)]]
           ELSE [table |-> InsertAll(table, projectId, agentId, patterns, exclusive,
                                     t, t + ttlSeconds),
                 out |-> [op |-> "reserveFiles", err |-> "none", n |-> Len(patterns)]]

reserveFiles(table, t, agentId, patterns, exclusive, ttlSeconds) ==
  IF ~AgentExists(agentId)
  THEN [table |-> table, out |-> [op |-> "reserveFiles", err |-> "not_found", n |-> 0]]
  ELSE LET projectId == agents[agentId].project_id
           conflictCheck == checkConflicts(table, t, projectId, agentId, patterns)
       IN  IF conflictCheck.hasConflicts /\ exclusive
           THEN [table |-> table,
                 out |-> [op |-> "reserveFiles", err |-> "conflict",
                          n |-> Len(conflictCheck.conflicts)]]
           ELSE [table |-> InsertAll(table, projectId, agentId, patterns, exclusive,
                                     t, t + ttlSeconds),
                 out |-> [op |-> "reserveFiles", err |-> "none", n |-> Len(patterns)]]

\* mutant: the UPDATE has no "AND released_ts IS NULL"
ReleaseOneAgain(table, t, id) ==
  IF id \in 1..Len(table)
  THEN [table |-> [table EXCEPT ![id].released_ts = t], changes |-> 1]
  ELSE [table |-> table, changes |-> 0]

\* UPDATE ... SET released_ts = ? WHERE id = ? AND released_ts IS NULL
ReleaseOne(table, t, id) ==
  IF id \in 1..Len(table) /\ table[id].released_ts = NULL
  THEN [table |-> [table EXCEPT ![id].released_ts = t], changes |-> 1]
  ELSE [table |-> table, changes |-> 0]

RECURSIVE ReleaseEach(_, _, _, _)
ReleaseEach(table, t, ids, released) ==
  IF ids = <<>> THEN [table |-> table, released |-> released]
  ELSE LET r == ReleaseOne(table, t, Head(ids))
       IN  ReleaseEach(r.table, t, Tail(ids), released + r.changes)

releaseReservations(table, t, reservationIds) ==
  LET r == ReleaseEach(table, t, reservationIds, 0)
  IN  [table |-> r.table,
       out |-> [op |-> "releaseReservations", err |-> "none", n |-> r.released]]

\* UPDATE ... SET released_ts = ? WHERE agent_id = ? AND released_ts IS NULL
releaseAllForAgent(table, t, agentId) ==
  LET hit == {i \in 1..Len(table) : table[i].agent_id = agentId /\ table[i].released_ts = NULL}
  IN  [table |-> [i \in 1..Len(table) |->
                    IF i \in hit THEN [table[i] EXCEPT !.released_ts = t] ELSE table[i]],
       out |-> [op |-> "releaseAllForAgent", err |-> "none", n |-> Cardinality(hit)]]

\* mutant: the forced release skips a row that is already released
ForceReleaseRowOnce(table, t, id) ==
  IF id \in 1..Len(table) /\ table[id].released_ts = NULL
  THEN [table |-> [table EXCEPT ![id].released_ts = t], changes |-> 1]
  ELSE [table |-> table, changes |-> 0]

\* UPDATE ... SET released_ts = ? WHERE id = ?
ForceReleaseRow(table, t, id) ==
  IF id \in 1..Len(table)
  THEN [table |-> [table EXCEPT ![id].released_ts = t], changes |-> 1]
  ELSE [table |-> table, changes |-> 0]

forceRelease(table, t, reservationId) ==
  LET r == ForceReleaseRow(table, t, reservationId)
  IN  [table |-> r.table,
       out |-> [op |-> "forceRelease", err |-> "none", n |-> r.changes]]

\* mutant: the UPDATE has no "AND released_ts IS NULL"
RenewOneReleased(table, newExpiresTs, id) ==
  IF id \in 1..Len(table)
  THEN [table |-> [table EXCEPT ![id].expires_ts = newExpiresTs], changes |-> 1]
  ELSE [table |-> table, changes |-> 0]

\* UPDATE ... SET expires_ts = ? WHERE id = ? AND released_ts IS NULL
RenewOne(table, newExpiresTs, id) ==
  IF id \in 1..Len(table) /\ table[id].released_ts = NULL
  THEN [table |-> [table EXCEPT ![id].expires_ts = newExpiresTs], changes |-> 1]
  ELSE [table |-> table, changes |-> 0]

RECURSIVE RenewEach(_, _, _, _)
RenewEach(table, newExpiresTs, ids, renewed) ==
  IF ids = <<>> THEN [table |-> table, renewed |-> renewed]
  ELSE LET r == RenewOne(table, newExpiresTs, Head(ids))
       IN  RenewEach(r.table, newExpiresTs, Tail(ids), renewed + r.changes)

\* mutant: a lease that has run out is not renewed
renewReservationsUnexpired(table, t, reservationIds, ttlSeconds) ==
  LET live == SelectSeq(reservationIds,
                        LAMBDA i : i \in 1..Len(table) => table[i].expires_ts > t)
      r == RenewEach(table, t + ttlSeconds, live, 0)
  IN  [table |-> r.table,
       out |-> [op |-> "renewReservations", err |-> "none", n |-> r.renewed]]

renewReservations(table, t, reservationIds, ttlSeconds) ==
  LET r == RenewEach(table, t + ttlSeconds, reservationIds, 0)
  IN  [table |-> r.table,
       out |-> [op |-> "renewReservations", err |-> "none", n |-> r.renewed]]

\* mutant: a lease that ends at this very instant is swept too
ExpiredIdsInclusive(table, t) ==
  {i \in 1..Len(table) : table[i].released_ts = NULL /\ table[i].expires_ts <= t}

\* the rows expireStaleReservations selects: released_ts IS NULL, expires_ts < now
ExpiredIds(table, t) ==
  {i \in 1..Len(table) : table[i].released_ts = NULL /\ table[i].expires_ts < t}

expireStaleReservations(table, t) ==
  LET expired == ExpiredIds(table, t)
  IN  [table |-> [i \in 1..Len(table) |->
                    IF i \in expired THEN [table[i] EXCEPT !.released_ts = t] ELSE table[i]],
       out |-> [op |-> "expireStaleReservations", err |-> "none",
                n |-> Cardinality(expired)]]

\* ------------------------------------------------ sequential lease engine
\* Every call runs to completion before the next one starts.
IdLists == {<<i>> : i \in 1..(MaxRows + 1)} \cup {<<1, 2>>, <<1, 1>>}

Procs == {1, 2}
NoProc == 0 - 1
IdleProc == [pc |-> "idle"]

InitAgents ==
  agents = [a \in AgentIds |-> [project_id |-> ProjectOf(a), program |-> ProgramOf(a),
                                contact_policy |-> "open"]]

Init ==
  /\ clock = 0
  /\ InitAgents
  /\ file_reservations = <<>>
  /\ ret = "none"
  /\ unswept = <<>>
  /\ lock = NoProc
  /\ proc = [p \in Procs |-> IdleProc]
  /\ agent_links = {}
  /\ nextLinkId = 1
  /\ linkProc = [p \in Procs |-> IdleProc]
  /\ messages = <<>>
  /\ message_recipients = <<>>
  /\ msgLock = NoProc
  /\ sendProc = [p \in Procs |-> IdleProc]

coreVars == <<lock, proc>>
msgVars == <<messages, message_recipients, msgLock, sendProc>>
linkVars == <<agent_links, nextLinkId, linkProc>>

Apply(r) ==
  /\ file_reservations' = r.table
  /\ ret' = r.out.err
  /\ UNCHANGED <<clock, agents, unswept, coreVars, linkVars, msgVars>>

ReserveFiles(agentId, patterns, exclusive, ttlSeconds) ==
  LET r == reserveFiles(file_reservations, clock, agentId, patterns, exclusive, ttlSeconds)
  IN  Len(r.table) <= MaxRows /\ Apply(r)

ReleaseReservations(ids) ==
  Apply(releaseReservations(file_reservations, clock, ids))

ReleaseAllForAgent(agentId) ==
  Apply(releaseAllForAgent(file_reservations, clock, agentId))

ForceRelease(id) ==
  Apply(forceRelease(file_reservations, clock, id))

RenewReservations(ids, ttlSeconds) ==
  Apply(renewReservations(file_reservations, clock, ids, ttlSeconds))

ExpireStaleReservations ==
  Apply(expireStaleReservations(file_reservations, clock))

\* time passes between calls
Tick ==
  /\ clock < MaxClock
  /\ clock' = clock + 1
  /\ UNCHANGED <<agents, file_reservations, ret, unswept, coreVars, linkVars, msgVars>>

Next ==
  \/ \E a \in AgentIds \cup {NoAgent}, ps \in Batches, ex \in BOOLEAN, ttl \in TtlChoices :
       ReserveFiles(a, ps, ex, ttl)
  \/ \E ids \in IdLists : ReleaseReservations(ids)
  \/ \E a \in AgentIds : ReleaseAllForAgent(a)
  \/ \E id \in 1..(MaxRows + 1) : ForceRelease(id)
  \/ \E ids \in IdLists, ttl \in TtlChoices : RenewReservations(ids, ttl)
  \/ ExpireStaleReservations
  \/ Tick

Spec == Init /\ [][Next]_vars

\* ------------------------------------------------- vocabulary of the claims
\* "Active" as the data model defines it: releasedTs null and expiresTs > now.
Active(row, t) == row.released_ts = NULL /\ row.expires_ts > t

RowIds(table) == 1..Len(table)

\* the rows that block `pattern` for `agentId`: active, exclusive, held by another
\* agent of the agent's project, overlapping under the heuristic
Blockers(table, t, agentId, pattern) ==
  {i \in RowIds(table) :
     /\ Active(table[i], t)
     /\ table[i].exclusive = 1
     /\ table[i].agent_id # agentId
     /\ table[i].project_id = ProjectOf(agentId)
     /\ patternsOverlap(pattern, table[i].path_pattern)}

BatchBlockers(table, t, agentId, patterns) ==
  UNION {Blockers(table, t, agentId, patterns[k]) : k \in 1..Len(patterns)}

\* C1: an exclusive reserveFiles with at least one pattern blocked by another
\* agent's active exclusive reservation of the same project throws the conflict
\* error and leaves the table as it was: no row for any pattern of the batch.
C1_ConflictRejectsWholeBatch ==
  \A a \in AgentIds, ps \in Batches, ttl \in TtlChoices :
    BatchBlockers(file_reservations, clock, a, ps) # {} =>
      LET r == reserveFiles(file_reservations, clock, a, ps, TRUE, ttl)
      IN  r.out.err = "conflict" /\ r.table = file_reservations

\* a batch of two was just rejected although only its first pattern is blocked
C1_Witness ==
  /\ ret = "conflict"
  /\ Len(file_reservations) = 1
  /\ \E a \in AgentIds :
       /\ Blockers(file_reservations, clock, a, PatFileAB) # {}
       /\ Blockers(file_reservations, clock, a, PatFileCD) = {}

\* C2: no two active exclusive reservations of different agents of one project
\* overlap.
C2_NoTwoActiveExclusiveOverlap ==
  \A i \in RowIds(file_reservations), j \in RowIds(file_reservations) :
    LET r1 == file_reservations[i]
        r2 == file_reservations[j]
    IN  ~ /\ i # j
          /\ Active(r1, clock) /\ Active(r2, clock)
          /\ r1.exclusive = 1 /\ r2.exclusive = 1
          /\ r1.agent_id # r2.agent_id
          /\ r1.project_id = r2.project_id
          /\ patternsOverlap(r1.path_pattern, r2.path_pattern)

\* the table with its advisory (non-exclusive) rows marked released
WithoutAdvisory(table) ==
  [i \in RowIds(table) |->
     IF table[i].exclusive = 0 THEN [table[i] EXCEPT !.released_ts = 0] ELSE table[i]]

\* C5: advisory reservations never block and are never blocked: a non-exclusive
\* reserveFiles of an existing agent always succeeds with one row per pattern;
\* an advisory row is never the blocker of a checkConflicts conflict or of
\* isFileReserved, and an exclusive reserveFiles, checkConflicts and
\* isFileReserved answer as they would with every advisory row released.
C5_AdvisoryNeverBlocks ==
  /\ \A a \in AgentIds, ps \in Batches, ttl \in TtlChoices :
       LET r == reserveFiles(file_reservations, clock, a, ps, FALSE, ttl)
       IN  /\ r.out.err = "none"
           /\ Len(r.table) = Len(file_reservations) + Len(ps)
           /\ \A k \in 1..Len(ps) :
                LET row == r.table[Len(file_reservations) + k]
                IN  row.path_pattern = ps[k] /\ row.exclusive = 0 /\ row.agent_id = a
  /\ \A a \in AgentIds, ps \in Batches :
       LET c == checkConflicts(file_reservations, clock, ProjectOf(a), a, ps)
       IN  /\ \A k \in 1..Len(c.conflicts) : c.conflicts[k].existingReservation.exclusive
           /\ c = checkConflicts(WithoutAdvisory(file_reservations), clock, ProjectOf(a), a, ps)
           /\ \A ttl \in TtlChoices :
                reserveFiles(file_reservations, clock, a, ps, TRUE, ttl).out.err
                  = reserveFiles(WithoutAdvisory(file_reservations), clock, a, ps, TRUE, ttl).out.err
  /\ \A a \in AgentIds, path \in Paths :
       LET f == isFileReserved(file_reservations, clock, ProjectOf(a), a, path)
       IN  /\ f.reserved => f.reservedBy.exclusive
           /\ f = isFileReserved(WithoutAdvisory(file_reservations), clock, ProjectOf(a), a, path)

\* an advisory reservation was made over another agent's active exclusive one
C5_Witness ==
  /\ ret = "none"
  /\ Len(file_reservations) = 2
  /\ LET r1 == file_reservations[1]
         r2 == file_reservations[2]
     IN  /\ Active(r1, clock) /\ Active(r2, clock)
         /\ r1.agent_id # r2.agent_id /\ r1.project_id = r2.project_id
         /\ r1.exclusive = 1 /\ r2.exclusive = 0
         /\ patternsOverlap(r2.path_pattern, r1.path_pattern)
         /\ GlobMatches(r2.path_pattern, PatFileAB)

\* a row whose expiresTs is not in the future
Expired(row, t) == row.expires_ts <= t

\* C6: a reservation whose expiresTs is not in the future is never honored, swept
\* or not: it is in no active-set answer, it is the blocker of no conflict and of
\* no isFileReserved answer, and an exclusive reserveFiles whose only possible
\* blockers are such rows succeeds.
C6_ExpiredNeverHonored ==
  \A i \in RowIds(file_reservations) :
    Expired(file_reservations[i], clock) =>
      /\ \A pr \in ProjectIds :
           LET act == getActiveReservations(file_reservations, clock, pr)
           IN  \A k \in 1..Len(act) : act[k].id # i
      /\ \A a \in AgentIds \cup {NoAgent} :
           LET act == getActiveReservationsForAgent(file_reservations, clock, a)
           IN  \A k \in 1..Len(act) : act[k].id # i
      /\ \A a \in AgentIds, ps \in Batches :
           LET c == checkConflicts(file_reservations, clock, ProjectOf(a), a, ps)
           IN  /\ \A k \in 1..Len(c.conflicts) : c.conflicts[k].existingReservation.id # i
               /\ (\A j \in RowIds(file_reservations) \ {i} :
                     Expired(file_reservations[j], clock) \/ file_reservations[j].released_ts # NULL)
                  => \A ttl \in TtlChoices :
                       reserveFiles(file_reservations, clock, a, ps, TRUE, ttl).out.err = "none"
      /\ \A a \in AgentIds, path \in Paths :
           LET f == isFileReserved(file_reservations, clock, ProjectOf(a), a, path)
           IN  f.reserved => f.reservedBy.id # i

\* an exclusive reservation that expired without being swept, and over it another
\* agent's overlapping exclusive reservation, made after the expiry
C6_Witness ==
  /\ ret = "none"
  /\ Len(file_reservations) = 2
  /\ LET r1 == file_reservations[1]
         r2 == file_reservations[2]
     IN  /\ r1.released_ts = NULL /\ Expired(r1, clock) /\ r1.exclusive = 1
         /\ Active(r2, clock) /\ r2.exclusive = 1
         /\ r1.agent_id # r2.agent_id /\ r1.project_id = r2.project_id
         /\ patternsOverlap(r2.path_pattern, r1.path_pattern)
         /\ GlobMatches(r1.path_pattern, PatFileAB)

\* ------------------------------------------- the same run with and without sweeps
\* Every call and every time step is applied to two tables: file_reservations,
\* where the expireStaleReservations calls of the run are executed, and unswept,
\* where they are left out.
ApplyBoth(r, u) ==
  /\ file_reservations' = r.table
  /\ unswept' = u.table
  /\ ret' = r.out.err
  /\ UNCHANGED <<clock, agents, coreVars, linkVars, msgVars>>

ReserveFilesBoth(agentId, patterns, exclusive, ttlSeconds) ==
  LET r == reserveFiles(file_reservations, clock, agentId, patterns, exclusive, ttlSeconds)
      u == reserveFiles(unswept, clock, agentId, patterns, exclusive, ttlSeconds)
  IN  Len(r.table) <= MaxRows /\ Len(u.table) <= MaxRows /\ ApplyBoth(r, u)

ReleaseReservationsBoth(ids) ==
  ApplyBoth(releaseReservations(file_reservations, clock, ids),
            releaseReservations(unswept, clock, ids))

ReleaseAllForAgentBoth(agentId) ==
  ApplyBoth(releaseAllForAgent(file_reservations, clock, agentId),
            releaseAllForAgent(unswept, clock, agentId))

ForceReleaseBoth(id) ==
  ApplyBoth(forceRelease(file_reservations, clock, id),
            forceRelease(unswept, clock, id))

RenewReservationsBoth(ids, ttlSeconds) ==
  ApplyBoth(renewReservations(file_reservations, clock, ids, ttlSeconds),
            renewReservations(unswept, clock, ids, ttlSeconds))

\* the sweep: executed on file_reservations, omitted on unswept
ExpireStaleReservationsSwept ==
  ApplyBoth(expireStaleReservations(file_reservations, clock),
            [table |-> unswept])

NextSweep ==
  \/ \E a \in AgentIds, ps \in Batches, ex \in BOOLEAN, ttl \in TtlChoices :
       ReserveFilesBoth(a, ps, ex, ttl)
  \/ \E ids \in IdLists : ReleaseReservationsBoth(ids)
  \/ \E a \in AgentIds : ReleaseAllForAgentBoth(a)
  \/ \E id \in 1..(MaxRows + 1) : ForceReleaseBoth(id)
  \/ \E ids \in IdLists, ttl \in TtlChoices : RenewReservationsBoth(ids, ttl)
  \/ ExpireStaleReservationsSwept
  \/ Tick

SpecSweep == Init /\ [][NextSweep]_vars

\* the ids of the active reservations of a table, over all projects
ActiveIds(table, t) ==
  UNION {{getActiveReservations(table, t, pr)[k].id :
            k \in 1..Len(getActiveReservations(table, t, pr))} : pr \in ProjectIds}

\* C7: the sweep is only bookkeeping: at every point of every run the active
\* reservations are the same with the sweeps executed as with the sweeps omitted.
C7_SweepIsInvisible ==
  ActiveIds(file_reservations, clock) = ActiveIds(unswept, clock)

\* ------------------------------------------------ AgentMailCore, concurrent callers
\* Each caller of Procs has at most one AgentMailCore call in flight.  A call
\* advances one database operation (one `await this.db...`) at a time, and the
\* callers' steps interleave.  The lock adapter is a mutex as LockAdapter
\* documents it: acquire(name, fn) runs fn while no other caller holds `name`.
CoreBatches == {<<PatFileAB>>, <<PatRecursive, PatFileCD>>}
CoreAgents == {1, 2}

\* mutant: reserveFiles is not wrapped in lock.acquire either
UsesLockNotReserve(op) == op \notin {"expireStaleReservations", "reserveFiles"}

\* the AgentMailCore methods that wrap their operation in lock.acquire("reservations", ...)
UsesLock(op) == op # "expireStaleReservations"

Call(op, agentId, patterns, exclusive, ttlSeconds, ids) ==
  [pc |-> "acquire", op |-> op, agentId |-> agentId, patterns |-> patterns,
   exclusive |-> exclusive, ttlSeconds |-> ttlSeconds, pending |-> ids,
   ts |-> 0, err |-> "none"]

\* the calls the callers choose from: exclusive reservations of both agents, one
\* advisory reservation, and one call of each other operation
CoreCalls ==
  {Call("reserveFiles", a, ps, TRUE, ttl, <<>>) :
     a \in CoreAgents, ps \in CoreBatches, ttl \in TtlChoices}
  \cup {Call("reserveFiles", 2, <<PatFileAB>>, FALSE, 1, <<>>)}
  \cup {Call("releaseReservations", 0, <<>>, FALSE, 0, <<1, 2>>)}
  \cup {Call("releaseAllReservationsForAgent", 1, <<>>, FALSE, 0, <<>>)}
  \cup {Call("forceReleaseReservation", 0, <<>>, FALSE, 0, <<1>>)}
  \cup {Call("renewReservations", 0, <<>>, FALSE, 1, <<1, 2>>)}
  \cup {Call("expireStaleReservations", 0, <<>>, FALSE, 0, <<>>)}

\* the first database operation of each ReservationOperations method
FirstStep(op) ==
  CASE op = "reserveFiles" -> "agent"
    [] op = "releaseReservations" -> "release"
    [] op = "releaseAllReservationsForAgent" -> "releaseAll"
    [] op = "forceReleaseReservation" -> "force"
    [] op = "renewReservations" -> "renew"
    [] op = "expireStaleReservations" -> "select"

RECURSIVE SortedSeq(_)
SortedSeq(S) ==
  IF S = {} THEN <<>>
  ELSE LET m == CHOOSE x \in S : \A y \in S : x <= y
       IN  <<m>> \o SortedSeq(S \ {m})

CoreStep(p, table, pr, lk) ==
  /\ file_reservations' = table
  /\ proc' = [proc EXCEPT ![p] = pr]
  /\ lock' = lk
  /\ UNCHANGED <<clock, agents, ret, unswept, linkVars, msgVars>>

\* a caller invokes a method of AgentMailCore
CoreCall(p, c) ==
  /\ proc[p].pc = "idle"
  /\ CoreStep(p, file_reservations, c, lock)

\* lock.acquire grants the lock and starts the operation, which runs up to its
\* first await; expireStaleReservations starts without the lock
Enter(p) ==
  LET c == proc[p]
  IN  /\ c.pc = "acquire"
      /\ UsesLock(c.op) => lock = NoProc
      /\ CoreStep(p, file_reservations,
                  [c EXCEPT !.pc = FirstStep(c.op),
                            !.ts = IF c.op = "renewReservations"
                                   THEN clock + c.ttlSeconds ELSE clock],
                  IF UsesLock(c.op) THEN p ELSE lock)

\* reserveFiles: SELECT project_id FROM agents WHERE id = ?
GetAgent(p) ==
  LET c == proc[p]
  IN  /\ c.pc = "agent"
      /\ CoreStep(p, file_reservations,
                  IF AgentExists(c.agentId) THEN [c EXCEPT !.pc = "check"]
                  ELSE [c EXCEPT !.pc = "return", !.err = "not_found"],
                  lock)

\* reserveFiles: the conflict check, then timestamp and expiresTs are taken
CheckConflicts(p) ==
  LET c == proc[p]
      conflictCheck == checkConflicts(file_reservations, clock,
                                      agents[c.agentId].project_id, c.agentId, c.patterns)
  IN  /\ c.pc = "check"
      /\ IF conflictCheck.hasConflicts /\ c.exclusive
         THEN CoreStep(p, file_reservations,
                       [c EXCEPT !.pc = "return", !.err = "conflict"], lock)
         ELSE /\ Len(file_reservations) + Len(c.patterns) <= MaxRows
              /\ CoreStep(p, file_reservations,
                          [c EXCEPT !.pc = "insert", !.pending = c.patterns,
                                    !.ts = clock + c.ttlSeconds], lock)

\* reserveFiles: one INSERT of the loop
InsertStep(p) ==
  LET c == proc[p]
  IN  /\ c.pc = "insert"
      /\ Len(file_reservations) < MaxRows
      /\ CoreStep(p, InsertReservation(file_reservations, agents[c.agentId].project_id,
                                       c.agentId, Head(c.pending), c.exclusive,
                                       clock, c.ts),
                  [c EXCEPT !.pending = Tail(c.pending),
                            !.pc = IF Tail(c.pending) = <<>> THEN "return" ELSE "insert"],
                  lock)

\* releaseReservations: one UPDATE of the loop
ReleaseStep(p) ==
  LET c == proc[p]
  IN  /\ c.pc = "release"
      /\ CoreStep(p, ReleaseOne(file_reservations, c.ts, Head(c.pending)).table,
                  [c EXCEPT !.pending = Tail(c.pending),
                            !.pc = IF Tail(c.pending) = <<>> THEN "return" ELSE "release"],
                  lock)

ReleaseAllStep(p) ==
  LET c == proc[p]
  IN  /\ c.pc = "releaseAll"
      /\ CoreStep(p, releaseAllForAgent(file_reservations, c.ts, c.agentId).table,
                  [c EXCEPT !.pc = "return"], lock)

ForceReleaseStep(p) ==
  LET c == proc[p]
  IN  /\ c.pc = "force"
      /\ CoreStep(p, ForceReleaseRow(file_reservations, c.ts, Head(c.pending)).table,
                  [c EXCEPT !.pc = "return", !.pending = <<>>], lock)

\* renewReservations: one UPDATE of the loop
RenewStep(p) ==
  LET c == proc[p]
  IN  /\ c.pc = "renew"
      /\ CoreStep(p, RenewOne(file_reservations, c.ts, Head(c.pending)).table,
                  [c EXCEPT !.pending = Tail(c.pending),
                            !.pc = IF Tail(c.pending) = <<>> THEN "return" ELSE "renew"],
                  lock)

\* expireStaleReservations: the SELECT and the filter on currentTime
SelectStale(p) ==
  LET c == proc[p]
      expired == SortedSeq(ExpiredIds(file_reservations, c.ts))
  IN  /\ c.pc = "select"
      /\ CoreStep(p, file_reservations,
                  [c EXCEPT !.pending = expired,
                            !.pc = IF expired = <<>> THEN "return" ELSE "sweep"],
                  lock)

\* expireStaleReservations: one UPDATE ... WHERE id = ? of the loop
SweepStep(p) ==
  LET c == proc[p]
  IN  /\ c.pc = "sweep"
      /\ CoreStep(p, ForceReleaseRow(file_reservations, c.ts, Head(c.pending)).table,
                  [c EXCEPT !.pending = Tail(c.pending),
                            !.pc = IF Tail(c.pending) = <<>> THEN "return" ELSE "sweep"],
                  lock)

\* the operation's promise settles; lock.acquire releases the lock
Return(p) ==
  /\ proc[p].pc = "return"
  /\ CoreStep(p, file_reservations, IdleProc, IF lock = p THEN NoProc ELSE lock)

NextCore ==
  \/ \E p \in Procs, c \in CoreCalls : CoreCall(p, c)
  \/ \E p \in Procs : Enter(p)
  \/ \E p \in Procs : GetAgent(p)
  \/ \E p \in Procs : CheckConflicts(p)
  \/ \E p \in Procs : InsertStep(p)
  \/ \E p \in Procs : ReleaseStep(p)
  \/ \E p \in Procs : ReleaseAllStep(p)
  \/ \E p \in Procs : ForceReleaseStep(p)
  \/ \E p \in Procs : RenewStep(p)
  \/ \E p \in Procs : SelectStale(p)
  \/ \E p \in Procs : SweepStep(p)
  \/ \E p \in Procs : Return(p)
  \/ Tick

SpecCore == Init /\ [][NextCore]_vars

\* a caller is inside an operation: started, and its promise not yet settled
InBody(p) == proc[p].pc \notin {"idle", "acquire"}

InReserveFiles(p) == InBody(p) /\ proc[p].op = "reserveFiles"

\* C3: with a mutex behind the lock adapter, the conflict check and the inserts
\* of two concurrent reserveFiles calls are never interleaved (at most one caller
\* is inside reserveFiles), and an exclusive reserveFiles that succeeds leaves no
\* active exclusive reservation of another agent of the project overlapping its
\* patterns, so of two concurrent overlapping calls at most one succeeds.
C3_ReserveFilesIsAtomic ==
  /\ \A p \in Procs, q \in Procs : p # q => ~(InReserveFiles(p) /\ InReserveFiles(q))
  /\ \A p \in Procs :
       LET c == proc[p]
       IN  (InReserveFiles(p) /\ c.pc = "return" /\ c.err = "none" /\ c.exclusive)
             => BatchBlockers(file_reservations, clock, c.agentId, c.patterns) = {}

\* one exclusive reserveFiles has made its inserts and still holds the lock,
\* while another agent's overlapping exclusive reserveFiles waits for the lock
C3_Witness ==
  \E p \in Procs, q \in Procs :
    LET c == proc[p]
        d == proc[q]
    IN  /\ p # q /\ lock = p
        /\ InReserveFiles(p) /\ c.pc = "return" /\ c.err = "none" /\ c.exclusive
        /\ d.pc = "acquire" /\ d.op = "reserveFiles" /\ d.exclusive
        /\ c.agentId # d.agentId
        /\ ProjectOf(c.agentId) = ProjectOf(d.agentId)
        /\ \E i \in 1..Len(c.patterns), j \in 1..Len(d.patterns) :
             patternsOverlap(d.patterns[j], c.patterns[i])
        /\ \E i \in RowIds(file_reservations) :
             /\ file_reservations[i].agent_id = c.agentId
             /\ Active(file_reservations[i], clock)

\* C4: every mutating reservation operation of AgentMailCore runs entirely while
\* holding the "reservations" lock: a caller inside such an operation is the
\* holder of the lock, so no two callers are inside one at the same time.
C4_MutationsHoldLock ==
  /\ \A p \in Procs : InBody(p) => lock = p
  /\ \A p \in Procs, q \in Procs : p # q => ~(InBody(p) /\ InBody(q))

\* ------------------------------------------------------- LinkOperations
\* A row of agent_links is [id, requester_id, responder_id, status, updated_ts];
\* created_ts is written once and never read, and is left out.  Every function
\* takes the table, the AUTOINCREMENT counter `nid` and the instant `t`, and
\* returns the table and the counter afterwards and the method's result.
NoLink == [id |-> NULL]

\* SELECT * FROM agent_links WHERE requester_id = ? AND responder_id = ?
LinkWhere(links, requesterId, responderId) ==
  {r \in links : r.requester_id = requesterId /\ r.responder_id = responderId}

agentLinkFromRow(row) ==
  [id |-> row.id, requesterId |-> row.requester_id, responderId |-> row.responder_id,
   status |-> row.status, updatedTs |-> row.updated_ts]

\* mutant: only the direction A -> B is looked up
getLinkBetweenOneWay(links, agentA, agentB) ==
  IF LinkWhere(links, agentA, agentB) # {}
  THEN agentLinkFromRow(CHOOSE r \in LinkWhere(links, agentA, agentB) : TRUE)
  ELSE NoLink

\* "Checks both directions"
getLinkBetween(links, agentA, agentB) ==
  IF LinkWhere(links, agentA, agentB) # {}
  THEN agentLinkFromRow(CHOOSE r \in LinkWhere(links, agentA, agentB) : TRUE)
  ELSE IF LinkWhere(links, agentB, agentA) # {}
       THEN agentLinkFromRow(CHOOSE r \in LinkWhere(links, agentB, agentA) : TRUE)
       ELSE NoLink

\* mutant: the status is decided from the requester's contact policy
InitialStatusByRequester(requesterId, responderId) ==
  LET policy == agents[requesterId].contact_policy
  IN  IF policy = "open" THEN "approved"
      ELSE IF policy = "auto" /\ agents[requesterId].program = agents[responderId].program
           THEN "approved"
           ELSE IF policy = "block_all" THEN "blocked" ELSE "pending"

\* the status requestLink gives a new link, from the responder's contact policy
InitialStatus(requesterId, responderId) ==
  LET policy == agents[responderId].contact_policy
  IN  IF policy = "open" THEN "approved"
      ELSE IF policy = "auto" /\ agents[requesterId].program = agents[responderId].program
           THEN "approved"
           ELSE IF policy = "block_all" THEN "blocked" ELSE "pending"

\* mutant: the table accepts a second row for the same (requester_id, responder_id)
InsertLinkNoUnique(links, nid, requesterId, responderId, status, t) ==
  [links |-> links \cup {[id |-> nid, requester_id |-> requesterId,
                          responder_id |-> responderId, status |-> status,
                          updated_ts |-> t]},
   nid |-> nid + 1, err |-> "none"]

\* INSERT INTO agent_links, under UNIQUE(requester_id, responder_id)
InsertLink(links, nid, requesterId, responderId, status, t) ==
  IF LinkWhere(links, requesterId, responderId) # {}
  THEN [links |-> links, nid |-> nid, err |-> "constraint"]
  ELSE [links |-> links \cup {[id |-> nid, requester_id |-> requesterId,
                               responder_id |-> responderId, status |-> status,
                               updated_ts |-> t]},
        nid |-> nid + 1, err |-> "none"]

\* mutant: only the direction (requester, responder) is looked up before creating
requestLinkOneWay(links, nid, t, requesterId, responderId) ==
  IF LinkWhere(links, requesterId, responderId) # {}
  THEN [links |-> links, nid |-> nid, err |-> "none",
        link |-> agentLinkFromRow(CHOOSE r \in LinkWhere(links, requesterId, responderId) : TRUE)]
  ELSE IF ~AgentExists(responderId) \/ ~AgentExists(requesterId)
       THEN [links |-> links, nid |-> nid, err |-> "not_found", link |-> NoLink]
       ELSE LET status == InitialStatus(requesterId, responderId)
                r == InsertLink(links, nid, requesterId, responderId, status, t)
            IN  [links |-> r.links, nid |-> r.nid, err |-> r.err,
                 link |-> IF r.err = "none"
                          THEN [id |-> nid, requesterId |-> requesterId,
                                responderId |-> responderId, status |-> status,
                                updatedTs |-> t]
                          ELSE NoLink]

requestLink(links, nid, t, requesterId, responderId) ==
  LET existing == getLinkBetween(links, requesterId, responderId)
      reverse == getLinkBetween(links, responderId, requesterId)
  IN  IF existing # NoLink
      THEN [links |-> links, nid |-> nid, err |-> "none", link |-> existing]
      ELSE IF reverse # NoLink
           THEN [links |-> links, nid |-> nid, err |-> "none", link |-> reverse]
           ELSE IF ~AgentExists(responderId) \/ ~AgentExists(requesterId)
                THEN [links |-> links, nid |-> nid, err |-> "not_found", link |-> NoLink]
                ELSE LET status == InitialStatus(requesterId, responderId)
                         r == InsertLink(links, nid, requesterId, responderId, status, t)
                     IN  [links |-> r.links, nid |-> r.nid, err |-> r.err,
                          link |-> IF r.err = "none"
                                   THEN [id |-> nid, requesterId |-> requesterId,
                                         responderId |-> responderId, status |-> status,
                                         updatedTs |-> t]
                                   ELSE NoLink]

\* UPDATE agent_links SET status = ?, updated_ts = ? WHERE id = ? [AND status = ?]
UpdateStatus(links, linkId, from, to, t) ==
  {IF r.id = linkId /\ r.status \in from
   THEN [r EXCEPT !.status = to, !.updated_ts = t] ELSE r : r \in links}

LinkStatuses == {"pending", "approved", "blocked"}

\* result.changes > 0 of that UPDATE, and of DELETE ... WHERE id = ?
Changed(links, linkId, from) == \E r \in links : r.id = linkId /\ r.status \in from

\* mutant: the UPDATE has no "AND status = 'pending'"
approveLinkAnyStatus(links, nid, t, linkId) ==
  [links |-> UpdateStatus(links, linkId, LinkStatuses, "approved", t), nid |-> nid,
   err |-> "none", ok |-> Changed(links, linkId, LinkStatuses)]

approveLink(links, nid, t, linkId) ==
  [links |-> UpdateStatus(links, linkId, {"pending"}, "approved", t), nid |-> nid,
   err |-> "none", ok |-> Changed(links, linkId, {"pending"})]

approveLinkFrom(links, nid, t, responderId, requesterId) ==
  LET link == getLinkBetween(links, requesterId, responderId)
  IN  IF link = NoLink THEN [links |-> links, nid |-> nid, err |-> "none", ok |-> FALSE]
      ELSE approveLink(links, nid, t, link.id)

blockLink(links, nid, t, linkId) ==
  [links |-> UpdateStatus(links, linkId, LinkStatuses, "blocked", t), nid |-> nid,
   err |-> "none", ok |-> Changed(links, linkId, LinkStatuses)]

\* mutant: a link found in the reverse direction is not used, a row is inserted
blockLinkFromOneWay(links, nid, t, responderId, requesterId) ==
  IF LinkWhere(links, requesterId, responderId) = {}
  THEN LET r == InsertLinkNoUnique(links, nid, requesterId, responderId, "blocked", t)
       IN  [links |-> r.links, nid |-> r.nid, err |-> r.err, ok |-> r.err = "none"]
  ELSE blockLink(links, nid, t,
                 (CHOOSE r \in LinkWhere(links, requesterId, responderId) : TRUE).id)

blockLinkFrom(links, nid, t, responderId, requesterId) ==
  LET link == getLinkBetween(links, requesterId, responderId)
  IN  IF link = NoLink
      THEN LET r == InsertLink(links, nid, requesterId, responderId, "blocked", t)
           IN  [links |-> r.links, nid |-> r.nid, err |-> r.err, ok |-> r.err = "none"]
      ELSE blockLink(links, nid, t, link.id)

\* mutant: unblocking restores the approval
unblockLinkToApproved(links, nid, t, linkId) ==
  [links |-> UpdateStatus(links, linkId, {"blocked"}, "approved", t), nid |-> nid,
   err |-> "none", ok |-> Changed(links, linkId, {"blocked"})]

unblockLink(links, nid, t, linkId) ==
  [links |-> UpdateStatus(links, linkId, {"blocked"}, "pending", t), nid |-> nid,
   err |-> "none", ok |-> Changed(links, linkId, {"blocked"})]

\* DELETE FROM agent_links WHERE id = ?
deleteLink(links, nid, t, linkId) ==
  [links |-> {r \in links : r.id # linkId}, nid |-> nid, err |-> "none",
   ok |-> Changed(links, linkId, LinkStatuses)]

\* -------------------------------------------- admission engine, sequential
\* Every LinkOperations call runs to completion before the next one starts.
LinkAgents == AgentIds
\* the agents whose contact policy is changed during a run
PolicyAgents == {2, 3}
LinkIds == 1..MaxLinkId

ApplyLink(r) ==
  /\ agent_links' = r.links
  /\ nextLinkId' = r.nid
  /\ ret' = r.err
  /\ UNCHANGED <<clock, agents, file_reservations, unswept, coreVars, linkProc, msgVars>>

RequestLink(requesterId, responderId) ==
  LET r == requestLink(agent_links, nextLinkId, clock, requesterId, responderId)
  IN  r.nid <= MaxLinkId + 1 /\ ApplyLink(r)

ApproveLink(linkId) == ApplyLink(approveLink(agent_links, nextLinkId, clock, linkId))

ApproveLinkFrom(responderId, requesterId) ==
  ApplyLink(approveLinkFrom(agent_links, nextLinkId, clock, responderId, requesterId))

BlockLink(linkId) == ApplyLink(blockLink(agent_links, nextLinkId, clock, linkId))

BlockLinkFrom(responderId, requesterId) ==
  LET r == blockLinkFrom(agent_links, nextLinkId, clock, responderId, requesterId)
  IN  r.nid <= MaxLinkId + 1 /\ ApplyLink(r)

UnblockLink(linkId) == ApplyLink(unblockLink(agent_links, nextLinkId, clock, linkId))

DeleteLink(linkId) == ApplyLink(deleteLink(agent_links, nextLinkId, clock, linkId))

\* AgentOperations.setContactPolicy
SetContactPolicy(agentId, policy) ==
  /\ agents' = [agents EXCEPT ![agentId].contact_policy = policy]
  /\ UNCHANGED <<clock, file_reservations, ret, unswept, coreVars, linkVars, msgVars>>

NextLinks ==
  \/ \E a \in LinkAgents \cup {NoAgent}, b \in LinkAgents \cup {NoAgent} : RequestLink(a, b)
  \/ \E id \in LinkIds : ApproveLink(id)
  \/ \E a \in LinkAgents, b \in LinkAgents : ApproveLinkFrom(a, b)
  \/ \E id \in LinkIds : BlockLink(id)
  \/ \E a \in LinkAgents, b \in LinkAgents : BlockLinkFrom(a, b)
  \/ \E id \in LinkIds : UnblockLink(id)
  \/ \E id \in LinkIds : DeleteLink(id)
  \/ \E a \in PolicyAgents, policy \in ContactPolicies : SetContactPolicy(a, policy)
  \/ Tick

SpecLinks == Init /\ [][NextLinks]_vars

\* the rows of the table that link the unordered pair {a, b}
LinksOfPair(links, a, b) == LinkWhere(links, a, b) \cup LinkWhere(links, b, a)

\* C8: under sequential execution requestLink is idempotent in both directions:
\* if a link between A and B exists in either direction, requestLink(A,B) and
\* requestLink(B,A) both succeed and return that link, with its id and status,
\* and leave the table and the id counter as they were, whatever the contact
\* policies of A and B are.
C8_RequestLinkIdempotent ==
  \A a \in LinkAgents, b \in LinkAgents :
    LET existing == getLinkBetween(agent_links, a, b)
        r1 == requestLink(agent_links, nextLinkId, clock, a, b)
        r2 == requestLink(agent_links, nextLinkId, clock, b, a)
    IN  existing # NoLink =>
          /\ r1.err = "none" /\ r2.err = "none"
          /\ r1.link = existing /\ r2.link = existing
          /\ r1.links = agent_links /\ r2.links = agent_links
          /\ r1.nid = nextLinkId /\ r2.nid = nextLinkId

\* an approved link exists whose requester and responder would both have a new
\* request blocked by now, and requestLink the other way round returns it
C8_Witness ==
  \E row \in agent_links :
    /\ row.status = "approved"
    /\ row.requester_id # row.responder_id
    /\ agents[row.responder_id].contact_policy = "block_all"
    /\ agents[row.requester_id].contact_policy = "block_all"
    /\ requestLink(agent_links, nextLinkId, clock,
                   row.responder_id, row.requester_id).link.id = row.id

\* C9: under sequential execution of the link operations the table never holds
\* two rows for the same unordered pair of agents.
C9_OneLinkPerPair ==
  \A a \in LinkAgents, b \in LinkAgents :
    Cardinality(LinksOfPair(agent_links, a, b)) <= 1

\* the pair {2, 3} was linked, the link deleted, and the pair linked again in the
\* opposite direction by blockLinkFrom or requestLink
C9_Witness ==
  /\ nextLinkId = 3
  /\ \E row \in agent_links :
       /\ row.id = 2 /\ row.requester_id = 3 /\ row.responder_id = 2
       /\ row.updated_ts = MaxClock
  /\ Cardinality(agent_links) = 1

\* ------------------------------------------- admission engine, concurrent callers
\* AgentMailCore.requestLink and blockLinkFrom call LinkOperations without taking
\* any lock.  Each caller of Procs has at most one call in flight; a call advances
\* one lookup or one write at a time and the callers' steps interleave.
ConcAgents == {1, 2}

\* the calls are between two different agents
ConcPairs == {pr \in ConcAgents \X ConcAgents : pr[1] # pr[2]}

LinkCalls ==
  {[pc |-> "existing", op |-> "requestLink", requesterId |-> pr[1], responderId |-> pr[2],
    status |-> "pending", ts |-> 0, linkId |-> NULL] : pr \in ConcPairs}
  \cup {[pc |-> "lookup", op |-> "blockLinkFrom", requesterId |-> pr[1],
         responderId |-> pr[2], status |-> "blocked", ts |-> 0, linkId |-> NULL] :
          pr \in ConcPairs}

LinkStepTo(p, r, c) ==
  /\ agent_links' = r.links
  /\ nextLinkId' = r.nid
  /\ linkProc' = [linkProc EXCEPT ![p] = c]
  /\ ret' = IF c.pc = "idle" THEN r.err ELSE ret
  /\ UNCHANGED <<clock, agents, file_reservations, unswept, coreVars, msgVars>>

Unchanged(err) == [links |-> agent_links, nid |-> nextLinkId, err |-> err]

LinkCall(p, c) ==
  /\ linkProc[p].pc = "idle"
  /\ LinkStepTo(p, Unchanged(ret), c)

\* requestLink: const existing = await this.getLinkBetween(requesterId, responderId)
LinkExisting(p) ==
  LET c == linkProc[p]
  IN  /\ c.pc = "existing"
      /\ IF getLinkBetween(agent_links, c.requesterId, c.responderId) # NoLink
         THEN LinkStepTo(p, Unchanged("none"), IdleProc)
         ELSE LinkStepTo(p, Unchanged("none"), [c EXCEPT !.pc = "reverse"])

\* requestLink: const reverse = await this.getLinkBetween(responderId, requesterId)
LinkReverse(p) ==
  LET c == linkProc[p]
  IN  /\ c.pc = "reverse"
      /\ IF getLinkBetween(agent_links, c.responderId, c.requesterId) # NoLink
         THEN LinkStepTo(p, Unchanged("none"), IdleProc)
         ELSE LinkStepTo(p, Unchanged("none"), [c EXCEPT !.pc = "agents"])

\* requestLink: the responder and requester rows are read, the initial status is
\* decided and the timestamp taken
LinkReadAgents(p) ==
  LET c == linkProc[p]
  IN  /\ c.pc = "agents"
      /\ IF ~AgentExists(c.responderId) \/ ~AgentExists(c.requesterId)
         THEN LinkStepTo(p, Unchanged("not_found"), IdleProc)
         ELSE LinkStepTo(p, Unchanged("none"),
                         [c EXCEPT !.pc = "insert", !.ts = clock,
                                   !.status = InitialStatus(c.requesterId, c.responderId)])

\* requestLink and blockLinkFrom: the INSERT; a constraint error rejects the call
LinkInsert(p) ==
  LET c == linkProc[p]
  IN  /\ c.pc = "insert"
      /\ nextLinkId <= MaxLinkId
      /\ LinkStepTo(p, InsertLink(agent_links, nextLinkId, c.requesterId, c.responderId,
                                  c.status, c.ts),
                    IdleProc)

\* blockLinkFrom: const link = await this.getLinkBetween(requesterId, responderId)
LinkLookup(p) ==
  LET c == linkProc[p]
      link == getLinkBetween(agent_links, c.requesterId, c.responderId)
  IN  /\ c.pc = "lookup"
      /\ IF link = NoLink
         THEN LinkStepTo(p, Unchanged("none"), [c EXCEPT !.pc = "insert", !.ts = clock])
         ELSE LinkStepTo(p, Unchanged("none"),
                         [c EXCEPT !.pc = "block", !.ts = clock, !.linkId = link.id])

\* blockLinkFrom: return this.blockLink(link.id)
LinkBlock(p) ==
  LET c == linkProc[p]
  IN  /\ c.pc = "block"
      /\ LinkStepTo(p, blockLink(agent_links, nextLinkId, c.ts, c.linkId), IdleProc)

\* deleteLink is a single DELETE
LinkDelete(p, linkId) ==
  /\ linkProc[p].pc = "idle"
  /\ LinkStepTo(p, deleteLink(agent_links, nextLinkId, clock, linkId), IdleProc)

NextLinksConc ==
  \/ \E p \in Procs, c \in LinkCalls : LinkCall(p, c)
  \/ \E p \in Procs : LinkExisting(p)
  \/ \E p \in Procs : LinkReverse(p)
  \/ \E p \in Procs : LinkReadAgents(p)
  \/ \E p \in Procs : LinkInsert(p)
  \/ \E p \in Procs : LinkLookup(p)
  \/ \E p \in Procs : LinkBlock(p)
  \/ \E p \in Procs, id \in LinkIds : LinkDelete(p, id)
  \/ \E policy \in ContactPolicies : SetContactPolicy(2, policy)
  \/ Tick

SpecLinksConc == Init /\ [][NextLinksConc]_vars

\* C10: link creation is not serialized.  UNIQUE(requester_id, responder_id) is
\* enforced, so the table never holds two rows with the same requester and
\* responder; that leaves up to two rows per unordered pair, one in each
\* direction, and the state with both is reached (C10_Witness).
C10_UniqueIsPerDirection ==
  \A a \in LinkAgents, b \in LinkAgents :
    /\ Cardinality(LinkWhere(agent_links, a, b)) <= 1
    /\ Cardinality(LinksOfPair(agent_links, a, b)) <= 2

\* two rows for the unordered pair {1, 2}: one requested by 1, one by 2
C10_Witness ==
  /\ LinkWhere(agent_links, 1, 2) # {}
  /\ LinkWhere(agent_links, 2, 1) # {}
  /\ Cardinality(LinksOfPair(agent_links, 1, 2)) = 2

\* ------------------------------------------------------ LinkOperations.canSend
Verdict(allowed, reason) == [allowed |-> allowed, reason |-> reason]

\* mutant: the recipient's policy is consulted before the link's blocked status
canSendPolicyFirst(links, senderId, recipientId) ==
  IF ~AgentExists(recipientId) THEN Verdict(FALSE, "blocked")
  ELSE LET policy == agents[recipientId].contact_policy
           link == getLinkBetween(links, senderId, recipientId)
       IN  IF policy = "block_all" THEN Verdict(FALSE, "block_all")
           ELSE IF policy = "open" THEN Verdict(TRUE, "open")
           ELSE IF link # NoLink /\ link.status = "blocked" THEN Verdict(FALSE, "blocked")
           ELSE IF link # NoLink /\ link.status = "approved"
                THEN Verdict(TRUE, "approved_contact")
           ELSE IF policy = "auto" /\ AgentExists(senderId)
                   /\ agents[senderId].program = agents[recipientId].program
                THEN Verdict(TRUE, "auto_approved")
           ELSE IF link # NoLink /\ link.status = "pending" THEN Verdict(FALSE, "pending")
           ELSE Verdict(FALSE, "contacts_only")

\* mutant: an approved link is honoured before the policy block_all is looked at
canSendApprovedFirst(links, senderId, recipientId) ==
  IF ~AgentExists(recipientId) THEN Verdict(FALSE, "blocked")
  ELSE LET policy == agents[recipientId].contact_policy
           link == getLinkBetween(links, senderId, recipientId)
       IN  IF link # NoLink /\ link.status = "blocked" THEN Verdict(FALSE, "blocked")
           ELSE IF link # NoLink /\ link.status = "approved"
                THEN Verdict(TRUE, "approved_contact")
           ELSE IF policy = "block_all" THEN Verdict(FALSE, "block_all")
           ELSE IF policy = "open" THEN Verdict(TRUE, "open")
           ELSE IF policy = "auto" /\ AgentExists(senderId)
                   /\ agents[senderId].program = agents[recipientId].program
                THEN Verdict(TRUE, "auto_approved")
           ELSE IF link # NoLink /\ link.status = "pending" THEN Verdict(FALSE, "pending")
           ELSE Verdict(FALSE, "contacts_only")

canSend(links, senderId, recipientId) ==
  IF ~AgentExists(recipientId) THEN Verdict(FALSE, "blocked")
  ELSE LET policy == agents[recipientId].contact_policy
           link == getLinkBetween(links, senderId, recipientId)
       IN  IF link # NoLink /\ link.status = "blocked" THEN Verdict(FALSE, "blocked")
           ELSE IF policy = "block_all" THEN Verdict(FALSE, "block_all")
           ELSE IF policy = "open" THEN Verdict(TRUE, "open")
           ELSE IF link # NoLink /\ link.status = "approved"
                THEN Verdict(TRUE, "approved_contact")
           ELSE IF policy = "auto"
                THEN IF AgentExists(senderId)
                        /\ agents[senderId].program = agents[recipientId].program
                     THEN Verdict(TRUE, "auto_approved")
                     ELSE IF link # NoLink /\ link.status = "pending"
                          THEN Verdict(FALSE, "pending")
                          ELSE Verdict(FALSE, "contacts_only")
                ELSE IF policy = "contacts_only"
                     THEN IF link # NoLink /\ link.status = "pending"
                          THEN Verdict(FALSE, "pending")
                          ELSE Verdict(FALSE, "contacts_only")
                     ELSE Verdict(FALSE, "blocked")

\* the status of the link between two agents, "none" if there is no row
StatusBetween(links, a, b) ==
  IF LinksOfPair(links, a, b) = {} THEN "none"
  ELSE (CHOOSE r \in LinksOfPair(links, a, b) : TRUE).status

SameProgram(a, b) == a \in AgentIds /\ b \in AgentIds /\ ProgramOf(a) = ProgramOf(b)

\* the status a new link is to get, as a table of the responder's policy and of
\* whether the two programs are equal
StatusByPolicy(policy, sameProgram) ==
  CASE policy = "open" -> "approved"
    [] policy = "auto" -> IF sameProgram THEN "approved" ELSE "pending"
    [] policy = "contacts_only" -> "pending"
    [] policy = "block_all" -> "blocked"

\* C11: with no link between the pair, requestLink(requester, responder) creates
\* one row from requester to responder whose status is a function of the
\* responder's contact policy and of the equality of the two programs only
\* (open: approved; auto: approved for equal programs, else pending;
\* contacts_only: pending; block_all: blocked), whatever the requester's policy.
C11_StatusFromResponderPolicy ==
  \A a \in LinkAgents, b \in LinkAgents :
    LET r == requestLink(agent_links, nextLinkId, clock, a, b)
        status == StatusByPolicy(agents[b].contact_policy, SameProgram(a, b))
    IN  LinksOfPair(agent_links, a, b) = {} =>
          /\ r.err = "none"
          /\ r.link.status = status
          /\ r.links = agent_links \cup
                         {[id |-> nextLinkId, requester_id |-> a, responder_id |-> b,
                           status |-> status, updated_ts |-> clock]}

\* a link from 3 to 2 was just created as pending under 2's policy auto, while
\* the policy of requester 3 is block_all
C11_Witness ==
  /\ agents[2].contact_policy = "auto"
  /\ agents[3].contact_policy = "block_all"
  /\ ret = "none"
  /\ agent_links = {[id |-> 1, requester_id |-> 3, responder_id |-> 2,
                     status |-> "pending", updated_ts |-> clock]}

\* the verdict the priority list gives, first matching rule first
VerdictByRules(recipientExists, policy, linkStatus, sameProgram) ==
  CASE ~recipientExists -> Verdict(FALSE, "blocked")
    [] recipientExists /\ linkStatus = "blocked" -> Verdict(FALSE, "blocked")
    [] recipientExists /\ linkStatus # "blocked" /\ policy = "block_all" ->
         Verdict(FALSE, "block_all")
    [] recipientExists /\ linkStatus # "blocked" /\ policy = "open" -> Verdict(TRUE, "open")
    [] recipientExists /\ linkStatus = "approved" /\ policy \in {"auto", "contacts_only"} ->
         Verdict(TRUE, "approved_contact")
    [] recipientExists /\ linkStatus \in {"none", "pending"} /\ policy = "auto" ->
         IF sameProgram THEN Verdict(TRUE, "auto_approved")
         ELSE IF linkStatus = "pending" THEN Verdict(FALSE, "pending")
              ELSE Verdict(FALSE, "contacts_only")
    [] recipientExists /\ linkStatus \in {"none", "pending"} /\ policy = "contacts_only" ->
         IF linkStatus = "pending" THEN Verdict(FALSE, "pending")
         ELSE Verdict(FALSE, "contacts_only")

\* C12: for every sender and recipient, existing or not, and every reachable
\* combination of recipient policy, link status and program equality, canSend
\* returns the verdict of the first matching rule of the priority list.
C12_CanSendFollowsPriority ==
  \A a \in LinkAgents \cup {NoAgent}, b \in LinkAgents \cup {NoAgent} :
    canSend(agent_links, a, b)
      = VerdictByRules(AgentExists(b),
                       IF AgentExists(b) THEN agents[b].contact_policy ELSE "open",
                       StatusBetween(agent_links, a, b), SameProgram(a, b))

\* a blocked link under an open policy, and an approved link under block_all:
\* in both the earlier rule of the list decides
C12_Witness ==
  /\ StatusBetween(agent_links, 1, 2) = "blocked"
  /\ agents[2].contact_policy = "open"
  /\ canSend(agent_links, 1, 2) = Verdict(FALSE, "blocked")
  /\ StatusBetween(agent_links, 2, 3) = "approved"
  /\ agents[3].contact_policy = "block_all"
  /\ canSend(agent_links, 2, 3) = Verdict(FALSE, "block_all")

\* C13: while recipient B has policy block_all, canSend(A,B) is not allowed for
\* any sender A, existing or not, whatever link the pair has.
C13_BlockAllNeverAllowed ==
  \A a \in LinkAgents \cup {NoAgent}, b \in LinkAgents :
    agents[b].contact_policy = "block_all" => ~canSend(agent_links, a, b).allowed

\* recipient 2 has policy block_all and an approved link with sender 3, who
\* is refused for block_all
C13_Witness ==
  /\ agents[2].contact_policy = "block_all"
  /\ StatusBetween(agent_links, 3, 2) = "approved"
  /\ canSend(agent_links, 3, 2) = Verdict(FALSE, "block_all")

\* the scenario of C14: recipient X, sender Z of another program, sender Y of
\* X's program
AutoX == 2
AutoZ == 3
AutoY == 1

\* an approveLink or approveLinkFrom step
ApproveStep ==
  \/ \E id \in LinkIds : ApproveLink(id)
  \/ \E a \in LinkAgents, b \in LinkAgents : ApproveLinkFrom(a, b)

\* the status of the row requested by `requesterId` of `responderId`, "none" if
\* there is no such row
StatusFrom(links, requesterId, responderId) ==
  IF LinkWhere(links, requesterId, responderId) = {} THEN "none"
  ELSE (CHOOSE r \in LinkWhere(links, requesterId, responderId) : TRUE).status

MaxMessages == 2

NoMessage == [id |-> NULL]

\* an input.importance that is not given
Undefined == "undefined"

\* models/message.ts
messageFromRow(row) ==
  [id |-> row.id, projectId |-> row.project_id, senderId |-> row.sender_id,
   threadId |-> row.thread_id, subject |-> row.subject, importance |-> row.importance]

Recipient(agentId, kind) == [agentId |-> agentId, kind |-> kind]

\* INSERT INTO messages (...) VALUES (...)
InsertMessage(msgs, input, threadId) ==
  Append(msgs, [id |-> Len(msgs) + 1,
                project_id |-> agents[input.senderId].project_id,
                sender_id |-> input.senderId,
                thread_id |-> threadId,
                subject |-> input.subject,
                importance |-> IF input.importance = Undefined THEN "normal"
                               ELSE input.importance])

\* the loop of INSERT INTO message_recipients, one row per entry of the list
RECURSIVE InsertRecipients(_, _, _)
InsertRecipients(rcps, messageId, recipients) ==
  IF recipients = <<>> THEN rcps
  ELSE InsertRecipients(Append(rcps, [id |-> Len(rcps) + 1, message_id |-> messageId,
                                      agent_id |-> Head(recipients).agentId,
                                      kind |-> Head(recipients).kind,
                                      read_ts |-> NULL, ack_ts |-> NULL]),
                        messageId, Tail(recipients))

\* mutant: the recipients are validated one by one while they are inserted,
\* after the message row
opsSendMessageLateCheck(msgs, rcps, input) ==
  IF ~AgentExists(input.senderId)
  THEN [msgs |-> msgs, rcps |-> rcps, err |-> "sender_not_found", message |-> NoMessage]
  ELSE LET threadId == IF input.threadId = NULL THEN Len(msgs) + 1 ELSE input.threadId
           msgs2 == InsertMessage(msgs, input, threadId)
           missing == {i \in 1..Len(input.recipients) :
                         ~AgentExists(input.recipients[i].agentId)}
           first == IF missing = {} THEN Len(input.recipients) + 1
                    ELSE CHOOSE i \in missing : \A j \in missing : i <= j
       IN  [msgs |-> msgs2,
            rcps |-> InsertRecipients(rcps, Len(msgs2),
                                      SubSeq(input.recipients, 1, first - 1)),
            err |-> IF missing = {} THEN "none" ELSE "recipient_not_found",
            message |-> IF missing = {} THEN messageFromRow(msgs2[Len(msgs2)])
                        ELSE NoMessage]

\* MessageOperations.sendMessage
opsSendMessage(msgs, rcps, input) ==
  IF ~AgentExists(input.senderId)
  THEN [msgs |-> msgs, rcps |-> rcps, err |-> "sender_not_found", message |-> NoMessage]
  ELSE IF \E i \in 1..Len(input.recipients) : ~AgentExists(input.recipients[i].agentId)
  THEN [msgs |-> msgs, rcps |-> rcps, err |-> "recipient_not_found", message |-> NoMessage]
  ELSE LET threadId == IF input.threadId = NULL THEN Len(msgs) + 1 ELSE input.threadId
           msgs2 == InsertMessage(msgs, input, threadId)
       IN  [msgs |-> msgs2,
            rcps |-> InsertRecipients(rcps, Len(msgs2), input.recipients),
            err |-> "none", message |-> messageFromRow(msgs2[Len(msgs2)])]

\* MessageOperations.getMessage
getMessage(msgs, messageId) ==
  IF messageId \in 1..Len(msgs) THEN messageFromRow(msgs[messageId]) ELSE NoMessage

\* MessageOperations.getRecipients: the rows of the message, in table order
getRecipients(rcps, messageId) ==
  LET OfMessage(r) == r.message_id = messageId
      rows == SelectSeq(rcps, OfMessage)
  IN  [i \in 1..Len(rows) |-> Recipient(rows[i].agent_id, rows[i].kind)]

\* UPDATE message_recipients SET read_ts = ?
\* WHERE message_id = ? AND agent_id = ? AND read_ts IS NULL
markRead(rcps, t, messageId, agentId) ==
  [i \in 1..Len(rcps) |->
     IF rcps[i].message_id = messageId /\ rcps[i].agent_id = agentId
        /\ rcps[i].read_ts = NULL
     THEN [rcps[i] EXCEPT !.read_ts = t] ELSE rcps[i]]

\* mutant: acknowledging does not stamp read_ts
acknowledgeWithoutRead(rcps, t, messageId, agentId) ==
  [i \in 1..Len(rcps) |->
     IF rcps[i].message_id = messageId /\ rcps[i].agent_id = agentId
     THEN [rcps[i] EXCEPT !.ack_ts = t] ELSE rcps[i]]

\* UPDATE message_recipients SET ack_ts = ?, read_ts = COALESCE(read_ts, ?)
\* WHERE message_id = ? AND agent_id = ?
acknowledge(rcps, t, messageId, agentId) ==
  [i \in 1..Len(rcps) |->
     IF rcps[i].message_id = messageId /\ rcps[i].agent_id = agentId
     THEN [rcps[i] EXCEPT !.ack_ts = t,
                          !.read_ts = IF rcps[i].read_ts = NULL THEN t ELSE rcps[i].read_ts]
     ELSE rcps[i]]

\* MessageOperations.getThread: created_ts ascending, which is insertion order
getThread(msgs, threadId) ==
  LET InThread(m) == m.thread_id = threadId
      rows == SelectSeq(msgs, InThread)
  IN  [i \in 1..Len(rows) |-> messageFromRow(rows[i])]

\* ------------------------------------------- AgentMailCore: sending messages
\* the loop over input.recipients that asks canSend once per recipient
allowedRecipients(links, input) ==
  LET Allowed(r) == canSend(links, input.senderId, r.agentId).allowed
  IN  SelectSeq(input.recipients, Allowed)

blockedRecipients(links, input) ==
  LET Denied(r) == ~canSend(links, input.senderId, r.agentId).allowed
      denied == SelectSeq(input.recipients, Denied)
  IN  [i \in 1..Len(denied) |->
         [agentId |-> denied[i].agentId,
          reason |-> canSend(links, input.senderId, denied[i].agentId).reason]]

\* the result of a send: the tables, the error thrown ("none" if none), the
\* message returned, the blocked list (in the error text or in the result) and
\* the flag `sent`
SendResult(r, blocked, sent) ==
  [msgs |-> r.msgs, rcps |-> r.rcps, err |-> r.err, message |-> r.message,
   blocked |-> blocked, sent |-> sent]

\* a sendMessage that filters nothing, whatever enforceContactPolicy says
sendMessageNoFilter(links, msgs, rcps, input) ==
  SendResult(opsSendMessage(msgs, rcps, input), <<>>, FALSE)

\* a sendMessage that filters always, whatever enforceContactPolicy says
sendMessageAlwaysFilter(links, msgs, rcps, input) ==
  LET allowed == allowedRecipients(links, input)
      blocked == blockedRecipients(links, input)
  IN  IF allowed = <<>>
      THEN [msgs |-> msgs, rcps |-> rcps, err |-> "all_blocked",
            message |-> NoMessage, blocked |-> blocked, sent |-> FALSE]
      ELSE SendResult(opsSendMessage(msgs, rcps, [input EXCEPT !.recipients = allowed]),
                      <<>>, FALSE)

\* AgentMailCore.sendMessage
sendMessage(links, msgs, rcps, input) ==
  IF input.enforceContactPolicy
  THEN LET allowed == allowedRecipients(links, input)
           blocked == blockedRecipients(links, input)
       IN  IF allowed = <<>>
           THEN [msgs |-> msgs, rcps |-> rcps, err |-> "all_blocked",
                 message |-> NoMessage, blocked |-> blocked, sent |-> FALSE]
           ELSE SendResult(opsSendMessage(msgs, rcps, [input EXCEPT !.recipients = allowed]),
                           <<>>, FALSE)
  ELSE SendResult(opsSendMessage(msgs, rcps, input), <<>>, FALSE)

\* a sendMessageWithPolicyCheck that throws when every recipient is denied
sendMessageWithPolicyCheckThrowing(links, msgs, rcps, input) ==
  LET allowed == allowedRecipients(links, input)
      blocked == blockedRecipients(links, input)
  IN  IF allowed = <<>>
      THEN [msgs |-> msgs, rcps |-> rcps, err |-> "all_blocked",
            message |-> NoMessage, blocked |-> blocked, sent |-> FALSE]
      ELSE LET r == opsSendMessage(msgs, rcps, [input EXCEPT !.recipients = allowed])
           IN  SendResult(r, IF r.err = "none" THEN blocked ELSE <<>>, r.err = "none")

\* AgentMailCore.sendMessageWithPolicyCheck
sendMessageWithPolicyCheck(links, msgs, rcps, input) ==
  LET allowed == allowedRecipients(links, input)
      blocked == blockedRecipients(links, input)
  IN  IF allowed = <<>>
      THEN [msgs |-> msgs, rcps |-> rcps, err |-> "none",
            message |-> NoMessage, blocked |-> blocked, sent |-> FALSE]
      ELSE LET r == opsSendMessage(msgs, rcps, [input EXCEPT !.recipients = allowed])
           IN  SendResult(r, IF r.err = "none" THEN blocked ELSE <<>>, r.err = "none")

\* ------------------------------------------------------------- SpecSend
\* One caller sends messages from agent 1, or from an id that is no agent,
\* while contact policies and the links of agent 1 change between the calls.

RecipientLists ==
  { <<Recipient(2, "to")>>,
    <<Recipient(3, "to")>>,
    <<Recipient(2, "to"), Recipient(3, "cc")>>,
    <<Recipient(2, "to"), Recipient(2, "cc")>>,
    <<Recipient(3, "to"), Recipient(NoAgent, "cc")>> }

SendInput(senderId, recipients, enforce) ==
  [senderId |-> senderId, recipients |-> recipients, subject |-> <<"s">>,
   threadId |-> NULL, importance |-> Undefined, enforceContactPolicy |-> enforce]

\* every list from agent 1, and one list from the id that is no agent
SendInputs ==
  { SendInput(1, rs, en) : rs \in RecipientLists, en \in BOOLEAN }
  \cup { SendInput(NoAgent, <<Recipient(2, "to")>>, en) : en \in BOOLEAN }

\* what the caller holds after the call: the call, and what it returned or threw
Returned(op, input, r) ==
  [pc |-> "returned", op |-> op, input |-> input, err |-> r.err,
   message |-> r.message, blocked |-> r.blocked, sent |-> r.sent]

ApplySend(p, op, input, r) ==
  /\ messages' = r.msgs
  /\ message_recipients' = r.rcps
  /\ ret' = r.err
  /\ sendProc' = [sendProc EXCEPT ![p] = Returned(op, input, r)]
  /\ UNCHANGED <<clock, agents, file_reservations, unswept, coreVars, linkVars, msgLock>>

SendMessage(p, input) ==
  /\ Len(messages) < MaxMessages
  /\ ApplySend(p, "sendMessage", input,
               sendMessage(agent_links, messages, message_recipients, input))

SendMessageWithPolicyCheck(p, input) ==
  /\ Len(messages) < MaxMessages
  /\ ApplySend(p, "sendMessageWithPolicyCheck", input,
               sendMessageWithPolicyCheck(agent_links, messages, message_recipients, input))

NextSend ==
  \/ \E input \in SendInputs : SendMessage(1, input)
  \/ \E input \in SendInputs : ~input.enforceContactPolicy /\ SendMessageWithPolicyCheck(1, input)
  \/ \E a \in PolicyAgents, policy \in ContactPolicies : SetContactPolicy(a, policy)
  \/ \E b \in PolicyAgents : RequestLink(1, b)
  \/ \E b \in PolicyAgents : ApproveLinkFrom(b, 1)
  \/ \E b \in PolicyAgents : BlockLinkFrom(b, 1)

SpecSend == Init /\ [][NextSend]_vars

\* the requested recipients the admission engine allows now, and those it denies
\* with its reason, each in the order of the request
Admitted(input) ==
  LET Ok(r) == canSend(agent_links, input.senderId, r.agentId).allowed
  IN  SelectSeq(input.recipients, Ok)

Dropped(input) ==
  LET No(r) == ~canSend(agent_links, input.senderId, r.agentId).allowed
      no == SelectSeq(input.recipients, No)
  IN  [i \in 1..Len(no) |->
         [agentId |-> no[i].agentId,
          reason |-> canSend(agent_links, input.senderId, no[i].agentId).reason]]

\* the delivery records a call with result `r` adds to the table, as (agent,
\* kind) in table order
NewRecords(r) ==
  LET rows == SubSeq(r.rcps, Len(message_recipients) + 1, Len(r.rcps))
  IN  [i \in 1..Len(rows) |-> Recipient(rows[i].agent_id, rows[i].kind)]

\* a call with result `r` adds one message row, sent by `senderId`, and nothing
\* else to the table; it returns that row, and the added delivery records
\* belong to it
OneMessageAdded(r, senderId) ==
  /\ Len(r.msgs) = Len(messages) + 1
  /\ SubSeq(r.msgs, 1, Len(messages)) = messages
  /\ r.msgs[Len(r.msgs)].sender_id = senderId
  /\ r.message = getMessage(r.msgs, Len(r.msgs))
  /\ SubSeq(r.rcps, 1, Len(message_recipients)) = message_recipients
  /\ \A i \in Len(message_recipients) + 1 .. Len(r.rcps) :
       r.rcps[i].message_id = r.message.id

NothingPersisted(r) == r.msgs = messages /\ r.rcps = message_recipients

\* C15: in every state a sequential run reaches, a sendMessage with
\* enforceContactPolicy = true by an existing sender adds one message whose
\* delivery records are exactly the requested recipients that canSend allows,
\* each with its kind; if canSend allows none, the call fails with the error
\* that lists every requested recipient with the reason canSend gave, and
\* neither table changes
C15_EnforcedSendDeliversToAllowed ==
  \A input \in SendInputs :
    (input.enforceContactPolicy /\ AgentExists(input.senderId)) =>
      LET r == sendMessage(agent_links, messages, message_recipients, input)
      IN  IF Admitted(input) # <<>>
          THEN /\ r.err = "none"
               /\ OneMessageAdded(r, input.senderId)
               /\ NewRecords(r) = Admitted(input)
          ELSE /\ r.err = "all_blocked"
               /\ r.blocked = Dropped(input)
               /\ Len(r.blocked) = Len(input.recipients)
               /\ NothingPersisted(r)

\* an enforced send to 2 (open) and 3 (block_all) has delivered to 2 only
C15_Witness ==
  /\ sendProc[1].pc = "returned"
  /\ sendProc[1].op = "sendMessage"
  /\ sendProc[1].input = SendInput(1, <<Recipient(2, "to"), Recipient(3, "cc")>>, TRUE)
  /\ sendProc[1].err = "none"
  /\ agents[2].contact_policy = "open"
  /\ agents[3].contact_policy = "block_all"
  /\ getRecipients(message_recipients, sendProc[1].message.id) = <<Recipient(2, "to")>>

\* an enforced send to 3 (block_all) alone has failed and persisted nothing
C15_WitnessAllBlocked ==
  /\ sendProc[1].pc = "returned"
  /\ sendProc[1].op = "sendMessage"
  /\ sendProc[1].input = SendInput(1, <<Recipient(3, "to")>>, TRUE)
  /\ sendProc[1].err = "all_blocked"
  /\ sendProc[1].blocked = <<[agentId |-> 3, reason |-> "block_all"]>>
  /\ messages = <<>>

\* the agents named in a list of recipients or of blocked recipients
AgentsIn(list) == { list[i].agentId : i \in 1..Len(list) }

\* C17: in every state a sequential run reaches, sendMessageWithPolicyCheck
\* throws no error when canSend denies recipients: if it allows none, the call
\* returns message = null and sent = false and neither table changes; otherwise
\* (the sender being an agent) it returns sent = true and the message it has
\* added, whose delivery records are the allowed recipients.  In both cases
\* blockedRecipients lists exactly the denied recipients with the reasons
\* canSend gave, delivered and blocked recipients partition the requested
\* ones, and sent, message # null and "some recipient is allowed" are
\* equivalent
C17_PolicyCheckNeverRaisesForDenied ==
  \A input \in SendInputs :
    LET r == sendMessageWithPolicyCheck(agent_links, messages, message_recipients, input)
    IN  /\ Admitted(input) = <<>> =>
             /\ r.err = "none"
             /\ r.message = NoMessage
             /\ ~r.sent
             /\ NothingPersisted(r)
        /\ (Admitted(input) # <<>> /\ AgentExists(input.senderId)) =>
             /\ r.err = "none"
             /\ r.sent
             /\ r.message # NoMessage
             /\ OneMessageAdded(r, input.senderId)
             /\ NewRecords(r) = Admitted(input)
        /\ r.err = "none" =>
             /\ r.blocked = Dropped(input)
             /\ Len(NewRecords(r)) + Len(r.blocked) = Len(input.recipients)
             /\ AgentsIn(NewRecords(r)) \cup AgentsIn(r.blocked) = AgentsIn(input.recipients)
             /\ AgentsIn(NewRecords(r)) \cap AgentsIn(r.blocked) = {}
             /\ r.sent <=> r.message # NoMessage
             /\ r.sent <=> Admitted(input) # <<>>

\* a checked send to 2 (open) and 3 (block_all) has delivered to 2 and reported
\* 3 as blocked for block_all
C17_Witness ==
  /\ sendProc[1].pc = "returned"
  /\ sendProc[1].op = "sendMessageWithPolicyCheck"
  /\ sendProc[1].input = SendInput(1, <<Recipient(2, "to"), Recipient(3, "cc")>>, FALSE)
  /\ agents[2].contact_policy = "open"
  /\ agents[3].contact_policy = "block_all"
  /\ sendProc[1].sent
  /\ sendProc[1].blocked = <<[agentId |-> 3, reason |-> "block_all"]>>
  /\ getRecipients(message_recipients, sendProc[1].message.id) = <<Recipient(2, "to")>>

\* C18: in every state a sequential run reaches, a sendMessage without
\* enforceContactPolicy whose sender and recipients are agents adds one message
\* and one delivery record for every requested recipient, whatever the
\* policies and the links are
C18_UnenforcedSendDeliversToAll ==
  \A input \in SendInputs :
    (/\ ~input.enforceContactPolicy
     /\ AgentExists(input.senderId)
     /\ \A i \in 1..Len(input.recipients) : AgentExists(input.recipients[i].agentId))
    => LET r == sendMessage(agent_links, messages, message_recipients, input)
       IN  /\ r.err = "none"
           /\ OneMessageAdded(r, input.senderId)
           /\ NewRecords(r) = input.recipients

\* an unenforced send has delivered to 2, whose link with the sender is blocked,
\* and to 3, whose policy is block_all
C18_Witness ==
  /\ sendProc[1].pc = "returned"
  /\ sendProc[1].op = "sendMessage"
  /\ sendProc[1].input = SendInput(1, <<Recipient(2, "to"), Recipient(3, "cc")>>, FALSE)
  /\ sendProc[1].err = "none"
  /\ StatusBetween(agent_links, 1, 2) = "blocked"
  /\ agents[3].contact_policy = "block_all"
  /\ canSend(agent_links, 1, 2) = Verdict(FALSE, "blocked")
  /\ canSend(agent_links, 1, 3) = Verdict(FALSE, "block_all")
  /\ getRecipients(message_recipients, sendProc[1].message.id)
       = <<Recipient(2, "to"), Recipient(3, "cc")>>
  /\ Len(messages) = 1

\* --------------------------------------------------------- SpecSendConc
\* Two callers run enforced sends from agent 1, one step per await of the
\* facade: a canSend per recipient, then lock.acquire("messages", ...), then the
\* statements of MessageOperations.sendMessage.  Other callers change a
\* contact policy or block a link between the steps; those methods take no
\* lock.  The agents table loses no row, so the look-ups of the sender and of
\* the recipients are one step.
SendOps == {"sendMessage", "sendMessageWithPolicyCheck"}

ConcInputs == { SendInput(1, <<Recipient(2, "to"), Recipient(3, "cc")>>, TRUE) }

\* the callers that are inside a send
InSend(p) == sendProc[p].pc \notin {"idle", "returned"}

SendStepTo(p, st) ==
  /\ sendProc' = [sendProc EXCEPT ![p] = st]
  /\ UNCHANGED <<clock, agents, file_reservations, unswept, coreVars, linkVars>>

\* the value returned, or the error thrown, when the caller leaves the send
Leave(st, err, message, sent) ==
  [pc |-> "returned", op |-> st.op, input |-> st.input, err |-> err,
   message |-> message, blocked |-> st.blocked, sent |-> sent]

\* the call: sendMessage without enforcement goes to the lock with the
\* requested recipients, the enforced sends start the canSend loop
SendCall(p, op, input) ==
  /\ ~InSend(p)
  /\ Len(messages) + Cardinality({q \in Procs : InSend(q)}) < MaxMessages
  /\ SendStepTo(p, [pc |-> IF op = "sendMessage" /\ ~input.enforceContactPolicy
                            THEN "acquire" ELSE "canSend",
                     op |-> op, input |-> input, i |-> 1,
                     allowed |-> IF op = "sendMessage" /\ ~input.enforceContactPolicy
                                 THEN input.recipients ELSE <<>>,
                     blocked |-> <<>>])
  /\ UNCHANGED <<messages, message_recipients, msgLock, ret>>

\* await this.linkOps.canSend(input.senderId, recipient.agentId) for the i-th
\* recipient; after the last one the caller throws or returns when nothing is
\* allowed, and asks for the lock otherwise
SendCanSend(p) ==
  LET st == sendProc[p]
      recipient == st.input.recipients[st.i]
      result == canSend(agent_links, st.input.senderId, recipient.agentId)
      allowed == IF result.allowed THEN Append(st.allowed, recipient) ELSE st.allowed
      blocked == IF result.allowed THEN st.blocked
                 ELSE Append(st.blocked, [agentId |-> recipient.agentId,
                                          reason |-> result.reason])
      st2 == [st EXCEPT !.i = st.i + 1, !.allowed = allowed, !.blocked = blocked]
  IN  /\ st.pc = "canSend"
      /\ IF st.i < Len(st.input.recipients)
         THEN SendStepTo(p, st2) /\ UNCHANGED ret
         ELSE IF allowed # <<>>
         THEN SendStepTo(p, [st2 EXCEPT !.pc = "acquire"]) /\ UNCHANGED ret
         ELSE IF st.op = "sendMessage"
         THEN SendStepTo(p, Leave(st2, "all_blocked", NoMessage, FALSE))
              /\ ret' = "all_blocked"
         ELSE SendStepTo(p, Leave(st2, "none", NoMessage, FALSE)) /\ ret' = "none"
      /\ UNCHANGED <<messages, message_recipients, msgLock>>

\* this.lock.acquire("messages", ...)
SendAcquire(p) ==
  /\ sendProc[p].pc = "acquire"
  /\ msgLock = NoProc
  /\ msgLock' = p
  /\ SendStepTo(p, [sendProc[p] EXCEPT !.pc = "validate"])
  /\ UNCHANGED <<messages, message_recipients, ret>>

\* MessageOperations.sendMessage: the sender and the recipients are looked up
SendValidate(p) ==
  LET st == sendProc[p]
      err == IF ~AgentExists(st.input.senderId) THEN "sender_not_found"
             ELSE IF \E k \in 1..Len(st.allowed) : ~AgentExists(st.allowed[k].agentId)
             THEN "recipient_not_found" ELSE "none"
  IN  /\ st.pc = "validate"
      /\ IF err = "none"
         THEN SendStepTo(p, [st EXCEPT !.pc = "insertMessage"]) /\ UNCHANGED <<msgLock, ret>>
         ELSE /\ SendStepTo(p, Leave([st EXCEPT !.blocked = <<>>], err, NoMessage, FALSE))
              /\ msgLock' = NoProc
              /\ ret' = err
      /\ UNCHANGED <<messages, message_recipients>>

\* MessageOperations.sendMessage: INSERT INTO messages
SendInsertMessage(p) ==
  LET st == sendProc[p]
      threadId == IF st.input.threadId = NULL THEN Len(messages) + 1 ELSE st.input.threadId
  IN  /\ st.pc = "insertMessage"
      /\ messages' = InsertMessage(messages, st.input, threadId)
      /\ SendStepTo(p, [pc |-> "insertRecipient", op |-> st.op, input |-> st.input,
                        i |-> 1, allowed |-> st.allowed, blocked |-> st.blocked,
                        messageId |-> Len(messages) + 1])
      /\ UNCHANGED <<message_recipients, msgLock, ret>>

\* MessageOperations.sendMessage: INSERT INTO message_recipients for the i-th
\* allowed recipient; after the last one the message is returned and the lock
\* is released
SendInsertRecipient(p) ==
  LET st == sendProc[p]
  IN  /\ st.pc = "insertRecipient"
      /\ st.i <= Len(st.allowed)
      /\ message_recipients' = InsertRecipients(message_recipients, st.messageId,
                                                <<st.allowed[st.i]>>)
      /\ IF st.i < Len(st.allowed)
         THEN SendStepTo(p, [st EXCEPT !.i = st.i + 1]) /\ UNCHANGED <<msgLock, ret>>
         ELSE /\ SendStepTo(p, Leave(IF st.op = "sendMessage"
                                     THEN [st EXCEPT !.blocked = <<>>] ELSE st,
                                     "none", messageFromRow(messages[st.messageId]),
                                     st.op = "sendMessageWithPolicyCheck"))
              /\ msgLock' = NoProc
              /\ ret' = "none"
      /\ UNCHANGED messages

NextSendConc ==
  \/ \E p \in Procs, op \in SendOps, input \in ConcInputs : SendCall(p, op, input)
  \/ \E p \in Procs : SendCanSend(p)
  \/ \E p \in Procs : SendAcquire(p)
  \/ \E p \in Procs : SendValidate(p)
  \/ \E p \in Procs : SendInsertMessage(p)
  \/ \E p \in Procs : SendInsertRecipient(p)
  \/ \E policy \in ContactPolicies : SetContactPolicy(3, policy)
  \/ BlockLinkFrom(2, 1)

SpecSendConc == Init /\ [][NextSendConc]_vars

\* C16: whenever an enforced send persists a delivery record, canSend allows
\* the sender to send to that recipient at that moment: the link between them
\* is not blocked and the recipient's policy does not deny the sender
C16_EnforcedSendRespectsAdmissionAtPersist ==
  [][\A p \in Procs :
       SendInsertRecipient(p)
       => canSend(agent_links, sendProc[p].input.senderId,
                  sendProc[p].allowed[sendProc[p].i].agentId).allowed
    ]_vars

\* ------------------------------------------ MessageOperations.replyMessage
Re == <<"R", "e", ":", " ">>

\* the loop that keeps the recipients of the original other than the replier
RECURSIVE OtherRecipients(_, _)
OtherRecipients(recipients, senderId) ==
  IF recipients = <<>> THEN <<>>
  ELSE IF Head(recipients).agentId # senderId
       THEN <<Recipient(Head(recipients).agentId, Head(recipients).kind)>>
            \o OtherRecipients(Tail(recipients), senderId)
       ELSE OtherRecipients(Tail(recipients), senderId)

replyRecipients(rcps, original, senderId) ==
  (IF original.senderId # senderId THEN <<Recipient(original.senderId, "to")>> ELSE <<>>)
  \o OtherRecipients(getRecipients(rcps, original.id), senderId)

\* a replyMessage that leaves the replier among the recipients
replyMessageToAll(msgs, rcps, originalMessageId, senderId) ==
  LET original == getMessage(msgs, originalMessageId)
  IN  IF original = NoMessage
      THEN [msgs |-> msgs, rcps |-> rcps, err |-> "original_not_found", message |-> NoMessage]
      ELSE opsSendMessage(msgs, rcps,
             [senderId |-> senderId,
              recipients |-> <<Recipient(original.senderId, "to")>>
                             \o getRecipients(rcps, original.id),
              subject |-> Re \o original.subject,
              threadId |-> original.threadId,
              importance |-> original.importance,
              enforceContactPolicy |-> FALSE])

\* a replyMessage that does not repeat a "Re: " the subject already starts with
replyMessageDedup(msgs, rcps, originalMessageId, senderId) ==
  LET original == getMessage(msgs, originalMessageId)
  IN  IF original = NoMessage
      THEN [msgs |-> msgs, rcps |-> rcps, err |-> "original_not_found", message |-> NoMessage]
      ELSE opsSendMessage(msgs, rcps,
             [senderId |-> senderId,
              recipients |-> replyRecipients(rcps, original, senderId),
              subject |-> IF Len(original.subject) >= Len(Re)
                             /\ SubSeq(original.subject, 1, Len(Re)) = Re
                          THEN original.subject ELSE Re \o original.subject,
              threadId |-> original.threadId,
              importance |-> original.importance,
              enforceContactPolicy |-> FALSE])

\* a replyMessage that drops the recipients canSend denies to the replier
replyMessageEnforced(msgs, rcps, originalMessageId, senderId) ==
  LET original == getMessage(msgs, originalMessageId)
      Ok(r) == canSend(agent_links, senderId, r.agentId).allowed
  IN  IF original = NoMessage
      THEN [msgs |-> msgs, rcps |-> rcps, err |-> "original_not_found", message |-> NoMessage]
      ELSE opsSendMessage(msgs, rcps,
             [senderId |-> senderId,
              recipients |-> SelectSeq(replyRecipients(rcps, original, senderId), Ok),
              subject |-> Re \o original.subject,
              threadId |-> original.threadId,
              importance |-> original.importance,
              enforceContactPolicy |-> FALSE])

\* MessageOperations.replyMessage
replyMessage(msgs, rcps, originalMessageId, senderId) ==
  LET original == getMessage(msgs, originalMessageId)
  IN  IF original = NoMessage
      THEN [msgs |-> msgs, rcps |-> rcps, err |-> "original_not_found", message |-> NoMessage]
      ELSE opsSendMessage(msgs, rcps,
             [senderId |-> senderId,
              recipients |-> replyRecipients(rcps, original, senderId),
              subject |-> Re \o original.subject,
              threadId |-> original.threadId,
              importance |-> original.importance,
              enforceContactPolicy |-> FALSE])

\* ------------------------------------------------------------ SpecReply
\* One caller sends root messages from agent 1 and replies, as any agent, to
\* any message, replies included.
MaxThread == MaxMessages + 1

ImportanceLevels == {Undefined, "high"}

RootLists ==
  { <<Recipient(2, "to"), Recipient(3, "cc")>>,
    <<Recipient(2, "to"), Recipient(1, "cc")>>,
    <<Recipient(3, "bcc")>> }

RootInputs ==
  { [SendInput(1, rs, FALSE) EXCEPT !.importance = imp] :
      rs \in RootLists, imp \in ImportanceLevels }

Repliers == AgentIds \cup {NoAgent}

MessageIds == 1..MaxThread

SendRoot(p, input) ==
  /\ Len(messages) < MaxThread
  /\ ApplySend(p, "sendMessage", input,
               sendMessage(agent_links, messages, message_recipients, input))

\* AgentMailCore.replyMessage
ReplyMessage(p, originalMessageId, senderId) ==
  /\ Len(messages) < MaxThread
  /\ ApplySend(p, "replyMessage",
               [originalMessageId |-> originalMessageId, senderId |-> senderId],
               SendResult(replyMessage(messages, message_recipients,
                                       originalMessageId, senderId), <<>>, FALSE))

NextReply ==
  \/ \E input \in RootInputs : SendRoot(1, input)
  \/ \E id \in MessageIds, a \in Repliers : ReplyMessage(1, id, a)

SpecReply == Init /\ [][NextReply]_vars

\* how often the delivery (agent, kind) occurs in a list of recipients
Occurrences(list, agentId, kind) ==
  Cardinality({i \in 1..Len(list) : list[i] = Recipient(agentId, kind)})

RecipientKinds == {"to", "cc", "bcc"}

\* the deliveries C19 names for a reply by `replier` to message `id`: the
\* original sender as "to" unless it is the replier, and each delivery of the
\* original that is not to the replier
Addressees(id, replier, agentId, kind) ==
  LET original == getMessage(messages, id)
      old == getRecipients(message_recipients, id)
  IN  (IF original.senderId # replier /\ agentId = original.senderId /\ kind = "to"
       THEN 1 ELSE 0)
      + (IF agentId # replier THEN Occurrences(old, agentId, kind) ELSE 0)

\* C19: in every reachable state, a reply by an agent to an existing message
\* adds one message whose delivery records are exactly the original sender
\* with kind "to" if it is not the replier, plus every recipient of the
\* original other than the replier with its original kind; the replier is
\* not among them
C19_ReplyAddressesOthers ==
  \A id \in 1..Len(messages), replier \in AgentIds :
    LET r == replyMessage(messages, message_recipients, id, replier)
    IN  /\ r.err = "none"
        /\ OneMessageAdded(r, replier)
        /\ \A a \in AgentIds, kind \in RecipientKinds :
             Occurrences(NewRecords(r), a, kind) = Addressees(id, replier, a, kind)
        /\ \A i \in 1..Len(NewRecords(r)) :
             /\ NewRecords(r)[i].agentId \in AgentIds \ {replier}
             /\ NewRecords(r)[i].kind \in RecipientKinds

\* agent 1 has written to 2 (to) and 3 (cc), and 2 has replied: the reply is
\* addressed to 1 (to) and 3 (cc)
C19_Witness ==
  /\ Len(messages) = 2
  /\ messages[1].sender_id = 1
  /\ getRecipients(message_recipients, 1) = <<Recipient(2, "to"), Recipient(3, "cc")>>
  /\ sendProc[1].pc = "returned"
  /\ sendProc[1].op = "replyMessage"
  /\ sendProc[1].input = [originalMessageId |-> 1, senderId |-> 2]
  /\ sendProc[1].err = "none"
  /\ messages[2].sender_id = 2
  /\ getRecipients(message_recipients, 2) = <<Recipient(1, "to"), Recipient(3, "cc")>>

\* the messages of a list, as a set
Range(list) == { list[i] : i \in 1..Len(list) }

\* a subject with k "Re: " in front of it
RECURSIVE Prefixed(_, _)
Prefixed(k, subject) == IF k = 0 THEN subject ELSE Re \o Prefixed(k - 1, subject)

\* C20: in every reachable state, a reply to an existing message, and a reply
\* to that reply, have the thread id and the importance of the message
\* replied to; the first has the subject "Re: " + the original subject and
\* the second "Re: Re: " + the original subject; getThread on the thread id
\* returns the messages the thread had, and both replies.  In the table every
\* message has the thread id and the importance of the root of its thread,
\* getThread on that id returns it, and its subject is the root's subject
\* with one "Re: " for each level of reply
C20_RepliesStayInThread ==
  /\ \A id \in 1..Len(messages), a1 \in AgentIds, a2 \in AgentIds :
       LET original == getMessage(messages, id)
           r1 == replyMessage(messages, message_recipients, id, a1)
           r2 == replyMessage(r1.msgs, r1.rcps, r1.message.id, a2)
       IN  /\ r1.err = "none" /\ r2.err = "none"
           /\ r1.message.threadId = original.threadId
           /\ r1.message.importance = original.importance
           /\ r1.message.subject = Re \o original.subject
           /\ r2.message.threadId = original.threadId
           /\ r2.message.importance = original.importance
           /\ r2.message.subject = Re \o Re \o original.subject
           /\ r1.message.id # r2.message.id
           /\ Range(getThread(r2.msgs, original.threadId))
                = Range(getThread(messages, original.threadId))
                  \cup {r1.message, r2.message}
           /\ original \in Range(getThread(r2.msgs, original.threadId))
  /\ \A i \in 1..Len(messages) :
       /\ messageFromRow(messages[i]) \in Range(getThread(messages, messages[i].thread_id))
       /\ messages[i].thread_id \in 1..i
       /\ messages[messages[i].thread_id].thread_id = messages[i].thread_id
       /\ messages[i].importance = messages[messages[i].thread_id].importance
       /\ \E k \in 0..(i - 1) :
            messages[i].subject = Prefixed(k, messages[messages[i].thread_id].subject)

\* a root message of importance high, a reply to it and a reply to the reply:
\* one thread, one importance, and one "Re: " more at each level
C20_Witness ==
  /\ Len(messages) = 3
  /\ messages[1].subject = <<"s">>
  /\ messages[1].importance = "high"
  /\ messages[2].subject = Re \o <<"s">>
  /\ messages[3].subject = Re \o Re \o <<"s">>
  /\ sendProc[1].op = "replyMessage"
  /\ sendProc[1].input.originalMessageId = 2
  /\ \A i \in 1..3 : messages[i].thread_id = messages[1].thread_id
                     /\ messages[i].importance = "high"
  /\ Len(getThread(messages, messages[1].thread_id)) = 3

\* --------------------------------------------- release, renewal, force release
\* the ids a list of reservation ids names
IdsOf(ids) == { ids[k] : k \in 1..Len(ids) }

\* C21: in every reachable state, for an agent and a pattern blocked by active
\* exclusive reservations of other agents of the project: once every blocker
\* is released, by releaseReservations, by releaseAllForAgent of its holder
\* or by forceRelease, an exclusive reserveFiles of the pattern by the agent
\* at that same instant succeeds, although the released rows have not expired
C21_ReleaseFreesPattern ==
  \A a \in AgentIds, p \in Patterns, ttl \in TtlChoices :
    LET blockers == Blockers(file_reservations, clock, a, p)
    IN  blockers # {} =>
          /\ \A ids \in IdLists :
               blockers \subseteq IdsOf(ids) =>
                 LET r == releaseReservations(file_reservations, clock, ids)
                 IN  reserveFiles(r.table, clock, a, <<p>>, TRUE, ttl).out.err = "none"
          /\ \A b \in AgentIds :
               (\A i \in blockers : file_reservations[i].agent_id = b) =>
                 LET r == releaseAllForAgent(file_reservations, clock, b)
                 IN  reserveFiles(r.table, clock, a, <<p>>, TRUE, ttl).out.err = "none"
          /\ \A i \in RowIds(file_reservations), j \in RowIds(file_reservations) :
               blockers \subseteq {i, j} =>
                 LET r1 == forceRelease(file_reservations, clock, i)
                     r2 == forceRelease(r1.table, clock, j)
                 IN  reserveFiles(r2.table, clock, a, <<p>>, TRUE, ttl).out.err = "none"
          /\ \A i \in blockers : file_reservations[i].expires_ts > clock

\* row 1 was released before it expired, and another agent of the project now
\* holds an active exclusive reservation of an overlapping pattern
C21_Witness ==
  /\ ret = "none"
  /\ Len(file_reservations) = 2
  /\ LET r1 == file_reservations[1]
         r2 == file_reservations[2]
     IN  /\ r1.released_ts # NULL /\ r1.expires_ts > clock /\ r1.exclusive = 1
         /\ Active(r2, clock) /\ r2.exclusive = 1
         /\ r1.agent_id # r2.agent_id /\ r1.project_id = r2.project_id
         /\ r1.path_pattern = r2.path_pattern

\* the instants from `t` on
Later(t) == t..MaxClock

\* C22: in every reachable state releaseReservations and releaseAllForAgent
\* raise no error, return the number of rows whose releasedTs was null and
\* that they name (by id, or by agent), set releasedTs of exactly those rows
\* and leave every other row, an already released one included, as it was;
\* the same call made again, then or later, returns 0 and changes nothing
C22_ReleaseIsIdempotent ==
  /\ \A ids \in IdLists :
       LET r == releaseReservations(file_reservations, clock, ids)
           hit == {i \in RowIds(file_reservations) :
                     i \in IdsOf(ids) /\ file_reservations[i].released_ts = NULL}
       IN  /\ r.out.err = "none"
           /\ r.out.n = Cardinality(hit)
           /\ Len(r.table) = Len(file_reservations)
           /\ \A i \in RowIds(file_reservations) :
                r.table[i] = IF i \in hit
                             THEN [file_reservations[i] EXCEPT !.released_ts = clock]
                             ELSE file_reservations[i]
           /\ \A t2 \in Later(clock) :
                LET again == releaseReservations(r.table, t2, ids)
                IN  again.out.err = "none" /\ again.out.n = 0 /\ again.table = r.table
  /\ \A a \in AgentIds \cup {NoAgent} :
       LET r == releaseAllForAgent(file_reservations, clock, a)
           hit == {i \in RowIds(file_reservations) :
                     file_reservations[i].agent_id = a
                     /\ file_reservations[i].released_ts = NULL}
       IN  /\ r.out.err = "none"
           /\ r.out.n = Cardinality(hit)
           /\ Len(r.table) = Len(file_reservations)
           /\ \A i \in RowIds(file_reservations) :
                r.table[i] = IF i \in hit
                             THEN [file_reservations[i] EXCEPT !.released_ts = clock]
                             ELSE file_reservations[i]
           /\ \A t2 \in Later(clock) :
                LET again == releaseAllForAgent(r.table, t2, a)
                IN  again.out.err = "none" /\ again.out.n = 0 /\ again.table = r.table

\* row 1 was released at instant 0; at instant 1 releasing it again, with an
\* id that names no row, returns 0 and the release timestamp is still 0
C22_Witness ==
  /\ clock = 1
  /\ ret = "none"
  /\ Len(file_reservations) >= 1
  /\ file_reservations[1].released_ts = 0
  /\ releaseReservations(file_reservations, clock, <<1, 1>>).out.n = 0
  /\ releaseReservations(file_reservations, clock, <<MaxRows + 1>>).out.n = 0
  /\ releaseAllForAgent(file_reservations, clock,
                        file_reservations[1].agent_id).table[1].released_ts = 0

\* C23: in every reachable state, for every list of ids and every ttlSeconds,
\* renewReservations leaves every unreleased reservation it names with an
\* expiresTs strictly greater than the one it had
C23_RenewStrictlyIncreasesExpiry ==
  \A ids \in IdLists, ttl \in TtlChoices :
    LET r == renewReservations(file_reservations, clock, ids, ttl)
    IN  \A i \in RowIds(file_reservations) :
          (i \in IdsOf(ids) /\ file_reservations[i].released_ts = NULL)
          => r.table[i].expires_ts > file_reservations[i].expires_ts

\* a row that has been released
Released(row) == row.released_ts # NULL

\* C24: no step removes a reservation row, and a released row stays released,
\* keeps its expiresTs and is not active after the step; in every reachable
\* state renewReservations leaves released rows as they are and returns 0
\* when it names released rows only, and no active-set query returns a
\* released row
C24_ReleaseIsPermanent ==
  /\ [](/\ \A ids \in IdLists, ttl \in TtlChoices :
             LET r == renewReservations(file_reservations, clock, ids, ttl)
             IN  /\ \A i \in RowIds(file_reservations) :
                      Released(file_reservations[i]) => r.table[i] = file_reservations[i]
                 /\ (\A i \in IdsOf(ids) \cap RowIds(file_reservations) :
                       Released(file_reservations[i]))
                    => r.out.n = 0
        /\ \A i \in RowIds(file_reservations) :
             Released(file_reservations[i]) =>
               /\ ~Active(file_reservations[i], clock)
               /\ \A pr \in ProjectIds :
                    LET act == getActiveReservations(file_reservations, clock, pr)
                    IN  \A k \in 1..Len(act) : act[k].id # i)
  /\ [][/\ Len(file_reservations') >= Len(file_reservations)
        /\ \A i \in RowIds(file_reservations) :
             /\ file_reservations'[i].id = file_reservations[i].id
             /\ Released(file_reservations[i]) =>
                  /\ Released(file_reservations'[i])
                  /\ file_reservations'[i].expires_ts = file_reservations[i].expires_ts
                  /\ ~Active(file_reservations'[i], clock')
    ]_vars

\* row 1 is released although its expiresTs is still ahead; renewing it
\* returns 0 and no active-set query returns it
C24_Witness ==
  /\ Len(file_reservations) >= 1
  /\ Released(file_reservations[1])
  /\ file_reservations[1].expires_ts > clock
  /\ ret = "none"
  /\ renewReservations(file_reservations, clock, <<1>>, 1).out.n = 0
  /\ getActiveReservations(file_reservations, clock, file_reservations[1].project_id) = <<>>

\* C28: in every reachable state forceRelease(id) raises no error and returns
\* true iff a row has that id, released or expired or neither; the row's
\* releasedTs is then the instant of the call, also when it held an earlier
\* release timestamp, and no other row and no other column changes
C28_ForceReleaseOverwrites ==
  \A id \in 1..(MaxRows + 1) :
    LET r == forceRelease(file_reservations, clock, id)
    IN  /\ r.out.err = "none"
        /\ (r.out.n > 0) <=> (id \in RowIds(file_reservations))
        /\ Len(r.table) = Len(file_reservations)
        /\ \A i \in RowIds(file_reservations) :
             r.table[i] = IF i = id
                          THEN [file_reservations[i] EXCEPT !.released_ts = clock]
                          ELSE file_reservations[i]

\* row 1 was released at instant 0 and expired at instant 1; forceRelease at
\* instant 1 returns true and replaces the release timestamp by 1
C28_Witness ==
  /\ clock = 1
  /\ Len(file_reservations) >= 1
  /\ file_reservations[1].released_ts = 0
  /\ file_reservations[1].expires_ts <= clock
  /\ forceRelease(file_reservations, clock, 1).out.n > 0
  /\ forceRelease(file_reservations, clock, 1).table[1].released_ts = 1
  /\ forceRelease(file_reservations, clock, MaxRows + 1).out.n = 0

\* the rows that make `path` reserved for `agentId` in `projectId`: active,
\* exclusive, of the project, held by another agent, matching the path
Reservers(table, t, projectId, agentId, path) ==
  {i \in RowIds(table) :
     /\ Active(table[i], t)
     /\ table[i].exclusive = 1
     /\ table[i].project_id = projectId
     /\ table[i].agent_id # agentId
     /\ GlobMatches(table[i].path_pattern, path)}

\* C30: in every reachable state isFileReserved(project, agent, path) answers
\* reserved = true iff some row of the project is active, exclusive, held by
\* another agent and matches the path; reservedBy is such a row; and the
\* rows of the asking agent make no difference to the answer
C30_IsFileReservedExact ==
  \A pr \in ProjectIds, a \in AgentIds \cup {NoAgent}, path \in Paths :
    LET f == isFileReserved(file_reservations, clock, pr, a, path)
        own == {i \in RowIds(file_reservations) : file_reservations[i].agent_id = a}
        others == [i \in RowIds(file_reservations) |->
                     IF i \in own THEN [file_reservations[i] EXCEPT !.released_ts = 0]
                     ELSE file_reservations[i]]
    IN  /\ f.reserved <=> Reservers(file_reservations, clock, pr, a, path) # {}
        /\ f.reserved =>
             /\ f.reservedBy.id \in Reservers(file_reservations, clock, pr, a, path)
             /\ f.reservedBy = fileReservationFromRow(file_reservations[f.reservedBy.id])
             /\ f.reservedBy.agentId # a
        /\ f = isFileReserved(others, clock, pr, a, path)

\* agent 1 holds an active exclusive reservation of a/**: the path a/x/y is
\* reserved for agent 2 of the same project, not for agent 1 itself and not
\* in the other project
C30_Witness ==
  /\ Len(file_reservations) >= 1
  /\ file_reservations[1].agent_id = 1
  /\ file_reservations[1].path_pattern = PatRecursive
  /\ file_reservations[1].exclusive = 1
  /\ Active(file_reservations[1], clock)
  /\ isFileReserved(file_reservations, clock, 1, 2, <<"a", "/", "x", "/", "y">>).reserved
  /\ isFileReserved(file_reservations, clock, 1, 2,
                    <<"a", "/", "x", "/", "y">>).reservedBy.id = 1
  /\ ~isFileReserved(file_reservations, clock, 1, 1, <<"a", "/", "x", "/", "y">>).reserved
  /\ ~isFileReserved(file_reservations, clock, 2, 3, <<"a", "/", "x", "/", "y">>).reserved
  /\ ret = "none"

\* ----------------------------------------------------------- SpecOverlap
\* The two agents of project 1 reserve single patterns with one-level
\* wildcards, exclusively, and release them.
NextOverlap ==
  \/ \E a \in CoreAgents, p \in OverlapPatterns, ttl \in TtlChoices :
       ReserveFiles(a, <<p>>, TRUE, ttl)
  \/ \E a \in CoreAgents : ReleaseAllForAgent(a)
  \/ Tick

SpecOverlap == Init /\ [][NextOverlap]_vars

\* some concrete path of the pool is matched by both patterns
ReallyOverlap(p, q) == \E path \in Paths : GlobMatches(p, path) /\ GlobMatches(q, path)

\* C29: for the pattern of every reservation made and every pattern of the
\* pool: if some concrete path is matched by both, patternsOverlap answers
\* true for the pair, in either order
C29_OverlapIsConservative ==
  \A i \in RowIds(file_reservations), q \in OverlapPatterns :
    ReallyOverlap(file_reservations[i].path_pattern, q) =>
      /\ patternsOverlap(file_reservations[i].path_pattern, q)
      /\ patternsOverlap(q, file_reservations[i].path_pattern)

\* ------------------------------------------------ link status transitions
\* the rows with the given id
LinkById(links, id) == {r \in links : r.id = id}

\* C25: in every reachable state approveLink(id) raises no error; if a row
\* has that id and is pending it returns true and the row becomes approved,
\* stamped with the instant of the call; otherwise (approved, blocked, or no
\* row) it returns false and the table, status and updatedTs included, is
\* unchanged.  No other row changes
C25_ApproveOnlyFromPending ==
  \A id \in 1..(MaxLinkId + 1) :
    LET r == approveLink(agent_links, nextLinkId, clock, id)
        pending == {x \in LinkById(agent_links, id) : x.status = "pending"}
    IN  /\ r.err = "none"
        /\ r.nid = nextLinkId
        /\ r.ok <=> pending # {}
        /\ r.ok => r.links = (agent_links \ pending)
                              \cup {[x EXCEPT !.status = "approved", !.updated_ts = clock] :
                                      x \in pending}
        /\ ~r.ok => r.links = agent_links

\* at instant 1 link 1 is blocked since instant 0: approveLink(1) returns
\* false and the row keeps its status and its updatedTs
C25_Witness ==
  /\ clock = 1
  /\ ret = "none"
  /\ \E x \in agent_links : x.id = 1 /\ x.status = "blocked" /\ x.updated_ts = 0
  /\ ~approveLink(agent_links, nextLinkId, clock, 1).ok
  /\ approveLink(agent_links, nextLinkId, clock, 1).links = agent_links

\* the steps that block, and the steps that unblock
BlockStep ==
  \/ \E id \in LinkIds : BlockLink(id)
  \/ \E a \in LinkAgents, b \in LinkAgents : BlockLinkFrom(a, b)

UnblockStep == \E id \in LinkIds : UnblockLink(id)

\* C26: over every step, a link that exists before and after keeps its
\* requester and responder, and its status changes only from pending to
\* approved by an approve step, from any status to blocked by a block step,
\* or from blocked to pending by an unblock step; a requestLink between
\* agents that have a link changes no row.  canSend is a query
C26_StatusTransitions ==
  [][/\ \A x \in agent_links, y \in agent_links' :
          x.id = y.id =>
            /\ x.requester_id = y.requester_id /\ x.responder_id = y.responder_id
            /\ x.status # y.status =>
                 \/ x.status = "pending" /\ y.status = "approved" /\ ApproveStep
                 \/ y.status = "blocked" /\ BlockStep
                 \/ x.status = "blocked" /\ y.status = "pending" /\ UnblockStep
     /\ \A a \in LinkAgents, b \in LinkAgents :
          (LinksOfPair(agent_links, a, b) # {} /\ RequestLink(a, b))
          => agent_links' = agent_links
    ]_vars

\* the link requested by agent 3 of agent 1, whose policy is open, is pending:
\* it was approved when created, then blocked, then unblocked
C26_Witness ==
  /\ agents[1].contact_policy = "open"
  /\ \E x \in agent_links :
       x.requester_id = 3 /\ x.responder_id = 1 /\ x.status = "pending"
  /\ canSend(agent_links, 3, 1) = Verdict(TRUE, "open")

\* C27: in every reachable state blockLinkFrom(responder, requester) raises
\* no error and returns true.  With no link between the two in either
\* direction it adds one row, from requester to responder, blocked; with a
\* link in either direction it sets that row to blocked and adds none.
\* Afterwards canSend(requester, responder) is denied with reason blocked,
\* whatever the responder's policy
C27_BlockLinkFromBlocks ==
  \A responderId \in LinkAgents, requesterId \in LinkAgents :
    LET r == blockLinkFrom(agent_links, nextLinkId, clock, responderId, requesterId)
        old == LinksOfPair(agent_links, requesterId, responderId)
    IN  /\ r.err = "none"
        /\ r.ok
        /\ old = {} =>
             r.links = agent_links
                       \cup {[id |-> nextLinkId, requester_id |-> requesterId,
                              responder_id |-> responderId, status |-> "blocked",
                              updated_ts |-> clock]}
        /\ old # {} =>
             /\ Cardinality(r.links) = Cardinality(agent_links)
             /\ r.links \ LinksOfPair(r.links, requesterId, responderId) = agent_links \ old
             /\ \A y \in LinksOfPair(r.links, requesterId, responderId) :
                  /\ y.status = "blocked"
                  /\ \E x \in old : x.id = y.id /\ x.requester_id = y.requester_id
                                    /\ x.responder_id = y.responder_id
        /\ canSend(r.links, requesterId, responderId) = Verdict(FALSE, "blocked")

\* the only link is the one agent 3 requested of agent 2; agent 3, as
\* responder, has blocked agent 2: the row is blocked, no row was added, and
\* agent 2 is denied although agent 3's policy is open
C27_Witness ==
  /\ nextLinkId = 2
  /\ Cardinality(agent_links) = 1
  /\ \E x \in agent_links :
       x.id = 1 /\ x.requester_id = 3 /\ x.responder_id = 2 /\ x.status = "blocked"
  /\ agents[3].contact_policy = "open"
  /\ blockLinkFrom(agent_links, nextLinkId, clock, 3, 2).links = agent_links
  /\ canSend(agent_links, 2, 3) = Verdict(FALSE, "blocked")

\* ------------------------------------------------- the sweep, own leases
\* C32: in every reachable state expireStaleReservations raises no error,
\* sets releasedTs to the instant of the call on exactly the rows that are
\* unreleased with expiresTs < now, returns their number and changes no other
\* row; in the table it leaves no unreleased row has expiresTs < now, and a
\* second call at that instant returns 0 and changes nothing
C32_SweepReleasesExactlyStale ==
  LET r == expireStaleReservations(file_reservations, clock)
      stale == {i \in RowIds(file_reservations) :
                  /\ file_reservations[i].released_ts = NULL
                  /\ file_reservations[i].expires_ts < clock}
      again == expireStaleReservations(r.table, clock)
  IN  /\ r.out.err = "none"
      /\ r.out.n = Cardinality(stale)
      /\ Len(r.table) = Len(file_reservations)
      /\ \A i \in RowIds(file_reservations) :
           r.table[i] = IF i \in stale
                        THEN [file_reservations[i] EXCEPT !.released_ts = clock]
                        ELSE file_reservations[i]
      /\ \A i \in RowIds(r.table) :
           r.table[i].released_ts = NULL => r.table[i].expires_ts >= clock
      /\ again.out.n = 0
      /\ again.table = r.table

\* at instant 1 one unreleased lease ended at 0 and another ends at 1: the
\* sweep releases the first and leaves the second
C32_Witness ==
  /\ clock = 1
  /\ \E i \in RowIds(file_reservations), j \in RowIds(file_reservations) :
       /\ file_reservations[i].released_ts = NULL /\ file_reservations[i].expires_ts = 0
       /\ file_reservations[j].released_ts = NULL /\ file_reservations[j].expires_ts = 1
       /\ expireStaleReservations(file_reservations, clock).table[i].released_ts = 1
       /\ expireStaleReservations(file_reservations, clock).table[j].released_ts = NULL
  /\ expireStaleReservations(file_reservations, clock).out.n = 1

\* batches that repeat a pattern or overlap themselves
OwnBatches == Batches \cup {<<PatFileAB, PatFileAB>>, <<PatRecursive, PatFileAB>>}

\* C33: in every reachable state, for every agent and batch, checkConflicts
\* reports no conflict against a reservation of the requesting agent; and
\* when no other agent's active exclusive reservation overlaps the batch, an
\* exclusive reserveFiles succeeds and appends one new row per pattern,
\* whatever the agent itself holds and also when the batch repeats a pattern
C33_OwnReservationsNeverConflict ==
  \A a \in AgentIds, ps \in OwnBatches :
    LET c == checkConflicts(file_reservations, clock, ProjectOf(a), a, ps)
        r == reserveFiles(file_reservations, clock, a, ps, TRUE, 1)
    IN  /\ \A k \in 1..Len(c.conflicts) :
             /\ c.conflicts[k].agentId # a
             /\ c.conflicts[k].existingReservation.agentId # a
        /\ BatchBlockers(file_reservations, clock, a, ps) = {} =>
             /\ ~c.hasConflicts
             /\ r.out.err = "none"
             /\ Len(r.table) = Len(file_reservations) + Len(ps)
             /\ SubSeq(r.table, 1, Len(file_reservations)) = file_reservations
             /\ \A k \in 1..Len(ps) :
                  LET row == r.table[Len(file_reservations) + k]
                  IN  /\ row.agent_id = a /\ row.path_pattern = ps[k]
                      /\ row.exclusive = 1 /\ Active(row, clock)

\* agent 1 holds active exclusive reservations of "a/**" and of "a/b", made
\* by two requests, and may reserve "a/b" twice more
C33_Witness ==
  /\ Len(file_reservations) = 2
  /\ \A i \in RowIds(file_reservations) :
       /\ file_reservations[i].agent_id = 1
       /\ file_reservations[i].exclusive = 1
       /\ Active(file_reservations[i], clock)
  /\ file_reservations[1].path_pattern = PatRecursive
  /\ file_reservations[2].path_pattern = PatFileAB
  /\ ret = "none"
  /\ reserveFiles(file_reservations, clock, 1, <<PatFileAB, PatFileAB>>, TRUE, 1).out.err = "none"

\* C36: in every reachable state, renewReservations naming an unreleased
\* row whose expiresTs is not after now counts it and sets its expiresTs to
\* now + ttlSeconds, so that with a positive ttl the row is active again,
\* whatever other agents hold
C36_RenewRevivesExpired ==
  \A i \in RowIds(file_reservations), ttl \in TtlChoices :
    (file_reservations[i].released_ts = NULL /\ file_reservations[i].expires_ts <= clock) =>
      LET r == renewReservations(file_reservations, clock, <<i>>, ttl)
      IN  /\ r.out.err = "none"
          /\ r.out.n = 1
          /\ r.table[i] = [file_reservations[i] EXCEPT !.expires_ts = clock + ttl]
          /\ \A j \in RowIds(file_reservations) \ {i} : r.table[j] = file_reservations[j]
          /\ ttl > 0 => Active(r.table[i], clock)

\* agent 1's exclusive lease of "a/b" ended at instant 0 and was not swept,
\* agent 2 has reserved "a/b" exclusively since: renewing the first makes
\* both active
C36_Witness ==
  /\ clock = 1
  /\ Len(file_reservations) = 2
  /\ file_reservations[1].agent_id = 1 /\ file_reservations[2].agent_id = 2
  /\ \A i \in RowIds(file_reservations) :
       /\ file_reservations[i].path_pattern = PatFileAB
       /\ file_reservations[i].exclusive = 1
       /\ file_reservations[i].released_ts = NULL
  /\ file_reservations[1].expires_ts = 0
  /\ Active(file_reservations[2], clock)
  /\ Active(renewReservations(file_reservations, clock, <<1>>, 1).table[1], clock)

\* batches that include the literal path
PathBatches(path) == {<<path>>, <<PatFileCD, path>>}

C39_BlockedDeniesBothWays ==
  \A a \in LinkAgents, b \in LinkAgents :
    LET pair == LinksOfPair(agent_links, a, b)
    IN  (Cardinality(pair) = 1 /\ \A l \in pair : l.status = "blocked") =>
          /\ canSend(agent_links, a, b) = Verdict(FALSE, "blocked")
          /\ canSend(agent_links, b, a) = Verdict(FALSE, "blocked")

\* the link requested by agent 1 of agent 2 is blocked and both have the
\* open policy: agent 2 may not send to agent 1 either
C39_Witness ==
  /\ \E l \in agent_links : l.requester_id = 1 /\ l.responder_id = 2 /\ l.status = "blocked"
  /\ Cardinality(LinksOfPair(agent_links, 1, 2)) = 1
  /\ agents[1].contact_policy = "open" /\ agents[2].contact_policy = "open"
  /\ canSend(agent_links, 2, 1) = Verdict(FALSE, "blocked")

\* ------------------------------------------------------ delivery records
\* the delivery records of message `messageId` for agent `agentId`
RecordsOf(rcps, messageId, agentId) ==
  {i \in 1..Len(rcps) : rcps[i].message_id = messageId /\ rcps[i].agent_id = agentId}

\* C34: in every state reached by root sends and replies, no message has
\* two delivery records for the same agent
C34_OneRecordPerRecipient ==
  \A m \in 1..Len(messages), a \in AgentIds :
    Cardinality(RecordsOf(message_recipients, m, a)) <= 1

\* C35: in every reachable state, whatever the policies and the links, a
\* sendMessage without enforceContactPolicy whose sender or one of whose
\* recipients is no agent fails with the not-found error of the sender or of
\* the recipient, returns no message, and leaves both tables as they were
C35_UnknownAgentWritesNothing ==
  \A input \in SendInputs :
    (/\ ~input.enforceContactPolicy
     /\ \/ ~AgentExists(input.senderId)
        \/ \E i \in 1..Len(input.recipients) : ~AgentExists(input.recipients[i].agentId))
    => LET r == sendMessage(agent_links, messages, message_recipients, input)
       IN  /\ r.err = IF ~AgentExists(input.senderId) THEN "sender_not_found"
                      ELSE "recipient_not_found"
           /\ r.message = NoMessage
           /\ NothingPersisted(r)

\* the unenforced send to agent 3 and to an id that is no agent has failed
\* with not-found and no message and no delivery record, for agent 3 either,
\* exists
C35_Witness ==
  /\ sendProc[1].pc = "returned"
  /\ sendProc[1].op = "sendMessage"
  /\ sendProc[1].input = SendInput(1, <<Recipient(3, "to"), Recipient(NoAgent, "cc")>>, FALSE)
  /\ sendProc[1].err = "recipient_not_found"
  /\ messages = <<>>
  /\ message_recipients = <<>>

\* C40: in every reachable state, whatever the policies and the links, a
\* replyMessage by any agent to any existing message succeeds, adds one
\* message and one delivery record for every entry of the computed reply
\* list, those that canSend denies to the replier included
C40_ReplyIgnoresAdmission ==
  \A id \in 1..Len(messages), a \in AgentIds :
    LET r == SendResult(replyMessage(messages, message_recipients, id, a), <<>>, FALSE)
    IN  /\ r.err = "none"
        /\ OneMessageAdded(r, a)
        /\ NewRecords(r) = replyRecipients(message_recipients, getMessage(messages, id), a)

\* message 1 went from agent 1 to agent 2 and their link is blocked: the
\* reply of agent 2 is delivered to agent 1, and so is the reply of agent 3,
\* who did not receive the message
C40_Witness ==
  /\ Len(messages) >= 1
  /\ messages[1].sender_id = 1
  /\ getRecipients(message_recipients, 1) = <<Recipient(2, "to")>>
  /\ canSend(agent_links, 2, 1) = Verdict(FALSE, "blocked")
  /\ NewRecords(SendResult(replyMessage(messages, message_recipients, 1, 2), <<>>, FALSE))
       = <<Recipient(1, "to")>>
  /\ NewRecords(SendResult(replyMessage(messages, message_recipients, 1, 3), <<>>, FALSE))
       = <<Recipient(1, "to"), Recipient(2, "to")>>

\* ------------------------------------------------------------ SpecInbox
\* One caller sends messages from agent 1; the agents mark them read and
\* acknowledge them, at any instant and in any order.
InboxInputs ==
  { SendInput(1, <<Recipient(2, "to"), Recipient(3, "cc")>>, FALSE),
    SendInput(1, <<Recipient(2, "to"), Recipient(2, "cc")>>, FALSE) }

ApplyInbox(rcps) ==
  /\ message_recipients' = rcps
  /\ ret' = "none"
  /\ UNCHANGED <<clock, agents, file_reservations, unswept, coreVars, linkVars,
                 messages, msgLock, sendProc>>

\* AgentMailCore.markRead
MarkRead(messageId, agentId) ==
  ApplyInbox(markRead(message_recipients, clock, messageId, agentId))

\* AgentMailCore.acknowledge
Acknowledge(messageId, agentId) ==
  ApplyInbox(acknowledge(message_recipients, clock, messageId, agentId))

NextInbox ==
  \/ \E input \in InboxInputs : SendMessage(1, input)
  \/ \E m \in MessageIds, a \in AgentIds : MarkRead(m, a)
  \/ \E m \in MessageIds, a \in AgentIds : Acknowledge(m, a)
  \/ Tick

SpecInbox == Init /\ [][NextInbox]_vars

\* the delivery record `row` is of message `messageId` for agent `agentId`
IsRecordOf(row, messageId, agentId) ==
  row.message_id = messageId /\ row.agent_id = agentId

\* C31: in every reachable state every delivery record with an ackTs has a
\* readTs; acknowledge(m, a) sets ackTs of the records of (m, a) to the
\* instant of the call and their readTs only where it was unset, and
\* markRead(m, a) sets readTs of those records only where it was unset and
\* never touches ackTs; neither changes another record
C31_AckImpliesRead ==
  /\ \A i \in 1..Len(message_recipients) :
       message_recipients[i].ack_ts # NULL => message_recipients[i].read_ts # NULL
  /\ \A m \in MessageIds, a \in AgentIds :
       LET acked == acknowledge(message_recipients, clock, m, a)
           read == markRead(message_recipients, clock, m, a)
       IN  /\ Len(acked) = Len(message_recipients)
           /\ Len(read) = Len(message_recipients)
           /\ \A i \in 1..Len(message_recipients) :
                LET old == message_recipients[i]
                IN  IF IsRecordOf(old, m, a)
                    THEN /\ acked[i] = [old EXCEPT !.ack_ts = clock,
                                                   !.read_ts = IF old.read_ts = NULL
                                                               THEN clock ELSE old.read_ts]
                         /\ read[i] = [old EXCEPT !.read_ts = IF old.read_ts = NULL
                                                              THEN clock ELSE old.read_ts]
                    ELSE acked[i] = old /\ read[i] = old

\* a record read at instant 0 and acknowledged at instant 1 keeps the
\* readTs 0, and markRead at instant 1 would leave it as it is
C31_Witness ==
  /\ clock = 1
  /\ \E i \in 1..Len(message_recipients) :
       /\ message_recipients[i].read_ts = 0
       /\ message_recipients[i].ack_ts = 1
       /\ markRead(message_recipients, clock, message_recipients[i].message_id,
                   message_recipients[i].agent_id)[i].read_ts = 0

====
